---- MODULE Spec2Model ----
(***************************************************************************)
(* A model of the "Planning with Files" agent of ollama_planning_agent.py: *)
(* the fence-block parser and file writer (TaskManager), the command       *)
(* executor (CommandExecutor) and the turn loop (run_agent).               *)
(*                                                                         *)
(* The source file carries unresolved merge markers; the model follows the *)
(* "Updated upstream" side throughout (plan_update_alert, context file,    *)
(* command execution), which is the side the tests exercise.               *)
(*                                                                         *)
(* Representation of text.  A text (file content, fence body, command) is  *)
(* a sequence of lines; a line is a string of a small alphabet.  Substring *)
(* and whitespace tests of the code are tables over that alphabet.  The    *)
(* final newline of a text is not represented.                             *)
(***************************************************************************)
EXTENDS Integers, Sequences, FiniteSets, TLC

VARIABLES
    osName,               \* os.name of the host: "posix" or "nt"
    goal,                 \* run_agent argument: a goal string was supplied
    continue_mode,        \* run_agent argument
    workdir,              \* run_agent argument: "none", "dir" or "notdir"
    turns,                \* run_agent argument
    context_file,         \* run_agent argument: a context file was named
    fs,                   \* the workspace: path -> [kind, text]
    pc,                   \* position of the running function
    turn,                 \* loop variable of run_agent
    missed_plan_update,   \* run_agent local
    last_command_output,  \* run_agent local: sequence of [cmd, out]
    prompt,               \* the prompt built for the pending backend call
    response,             \* the backend response being parsed
    saved_files,          \* result of the latest parse_response
    command_to_run,       \* result of the latest parse_response
    cmdIdx,               \* position in the command loop of run_agent
    calls,                \* backend calls made in the turn loop so far
    seed_calls,           \* backend calls made by initialize_plan so far
    matches,              \* save_files_from_response: the matches found
    blockIdx,             \* save_files_from_response: position in matches
    lastExec,             \* the latest CommandExecutor.execute call
    stream,               \* collaborative_build argument
    tests_dir,            \* collaborative_build argument
    idx,                  \* loop variable of collaborative_build
    history,              \* collaborative_build local
    last_resp,            \* collaborative_build local
    coder_reply,          \* collaborative_build local
    written,              \* collaborative_build local
    test_result,          \* what run_pytest returned in the current round
    sent                  \* the prompts collaborative_build sent so far

vars == <<osName, goal, continue_mode, workdir, turns, context_file, fs, pc,
          turn, missed_plan_update, last_command_output, prompt, response,
          saved_files, command_to_run, cmdIdx, calls, seed_calls, matches,
          blockIdx, lastExec, stream, tests_dir, idx, history, last_resp,
          coder_reply, written, test_result, sent>>

\* the variables of collaborative_build
buildVars == <<stream, tests_dir, idx, history, last_resp, coder_reply,
               written, test_result, sent>>

-----------------------------------------------------------------------------
(* Bounds of the model.                                                    *)

\* longest response of the parser specification, in fence chunks
MaxBlocks == 2

\* largest turn budget of the agent specification
MaxTurns == 2

\* longest command of the executor specification, in lines
MaxLines == 3

-----------------------------------------------------------------------------
(* Program constants.                                                      *)

TASK_FILE == "task_plan.md"

NOTES_FILE == "notes.md"

ERROR_FILE == "error.md"

NO_PLAN == <<"No plan exists yet.">>

\* a Python str value, and the generator object that a call of generate
\* returns before it is iterated
Str(lines) == [type |-> "str", lines |-> lines]

GeneratorObject == [type |-> "generator", lines |-> <<>>]

\* tests_dir = None
NoTestsDir == [abs |-> FALSE, parts |-> <<>>]

\* no run_pytest call in the current round
NoTest == [ran |-> FALSE, passed |-> FALSE, output |-> Str(<<>>)]

\* collaborative_build not running
BuildIdle ==
    /\ stream = FALSE
    /\ tests_dir = NoTestsDir
    /\ idx = 0
    /\ history = <<>>
    /\ last_resp = Str(<<>>)
    /\ coder_reply = Str(<<>>)
    /\ written = <<>>
    /\ test_result = NoTest
    /\ sent = <<>>

-----------------------------------------------------------------------------
(* Strings: the tables that stand for Python's str operations.             *)

\* line.strip() == "" : the whitespace-only lines of the alphabet
IsBlankLine(l) == l \in {"", "   "}

\* str.lstrip() of one line
LStripLine(l) ==
    CASE l = "  # BG  " -> "# BG  "
      [] l = "  # BG" -> "# BG"
      [] l = "   " -> ""
      [] OTHER -> l

\* str.rstrip() of one line
RStripLine(l) ==
    CASE l = "  # BG  " -> "  # BG"
      [] l = "# BG  " -> "# BG"
      [] l = "   " -> ""
      [] OTHER -> l

StripLine(l) == RStripLine(LStripLine(l))

\* str.lower() of a stripped line
LowerLine(l) == IF l = "# BG" THEN "# bg" ELSE l

\* marker in line, for the two termination markers of run_agent
LineHasSub(l, marker) ==
    CASE marker = "Status: Complete" ->
             l \in {"Status: Complete", "Status: Complete (verified)"}
      [] marker = "[x] Phase 4" -> l \in {"- [x] Phase 4: Review"}
      [] OTHER -> l = marker

\* marker in text
TextHasSub(text, marker) ==
    \E i \in 1..Len(text) : LineHasSub(text[i], marker)

RECURSIVE DropLeadingBlank(_)
DropLeadingBlank(text) ==
    IF text = <<>> THEN <<>>
    ELSE IF IsBlankLine(Head(text)) THEN DropLeadingBlank(Tail(text))
    ELSE text

RECURSIVE DropTrailingBlank(_)
DropTrailingBlank(text) ==
    IF text = <<>> THEN <<>>
    ELSE IF IsBlankLine(text[Len(text)])
         THEN DropTrailingBlank(SubSeq(text, 1, Len(text) - 1))
    ELSE text

\* str.strip() of a text: blank lines at both ends go, and so does the
\* whitespace before the first and after the last remaining character
StripText(text) ==
    LET t == DropTrailingBlank(DropLeadingBlank(text))
    IN  IF t = <<>> THEN <<>>
        ELSE LET a == [t EXCEPT ![1] = LStripLine(t[1])]
             IN  [a EXCEPT ![Len(a)] = RStripLine(a[Len(a)])]

-----------------------------------------------------------------------------
(* Paths: the tables that stand for str tests on a filename and for        *)
(* pathlib.Path.                                                           *)

\* "." in t
HasDot(t) ==
    t \in {"task_plan.md", "./task_plan.md", "script.py", "dir/file.py",
           "run.sh", "task_plan.md#Status", "task_plan.md/x.py",
           "../evil.py", "out/../evil.py", "notes.md", "/ws/task_plan.md"}

\* "/" in t
HasSlash(t) ==
    t \in {"./task_plan.md", "dir/file.py", "task_plan.md/x.py",
           "../evil.py", "out/../evil.py", "/etc/passwd", "/ws/task_plan.md"}

\* ".." in t
HasDotDot(t) == t \in {"../evil.py", "out/../evil.py"}

\* t.startswith("/")
StartsWithSlash(t) == t \in {"/etc/passwd", "/ws/task_plan.md"}

\* The file a filename names, relative to the working directory
\* (Path(filename) with "." segments dropped).
Canon(t) == IF t = "./task_plan.md" THEN "task_plan.md" ELSE t

\* str(Path(filename)): normalised, with the host's separator
PathStr(os, t) ==
    LET c == Canon(t)
    IN  IF os = "nt"
        THEN CASE c = "dir/file.py" -> "dir\\file.py"
               [] c = "task_plan.md/x.py" -> "task_plan.md\\x.py"
               [] c = "../evil.py" -> "..\\evil.py"
               [] c = "out/../evil.py" -> "out\\..\\evil.py"
               [] c = "/etc/passwd" -> "\\etc\\passwd"
               [] c = "/ws/task_plan.md" -> "\\ws\\task_plan.md"
               [] OTHER -> c
        ELSE c

\* path.parent, "." standing for a directory that exists (the working
\* directory, or a directory outside the workspace)
Parent(p) ==
    CASE p = "dir/file.py" -> "dir"
      [] p = "task_plan.md/x.py" -> "task_plan.md"
      [] p = "out/../evil.py" -> "out"
      [] OTHER -> "."

\* the paths the workspace records: the files and directories the headers
\* of the model can name, and the language tags, which name a file when a
\* header is taken for a filename
FsPaths ==
    {"task_plan.md", "script.py", "dir", "dir/file.py", "run.sh",
     "task_plan.md#Status", "task_plan.md/x.py", "notes.md", "error.md",
     "../evil.py", "/etc/passwd", "out", "out/../evil.py",
     "/ws/task_plan.md", "python", "markdown", "Bash"}

Absent == [kind |-> "absent", text |-> <<>>]

Dir == [kind |-> "dir", text |-> <<>>]

File(text) == [kind |-> "file", text |-> text]

-----------------------------------------------------------------------------
(* TaskManager: the fence-block parser and the file writer.                *)

\* A response is a sequence of lines.  A line either starts a fence
\* (fence = TRUE, header = what follows the three backticks, a sequence of
\* tokens and of " " for each run of whitespace) or is plain text.
FenceLine(header) == [fence |-> TRUE, header |-> header, text |-> ""]

TextLine(l) == [fence |-> FALSE, header |-> <<>>, text |-> l]

\* index of the first fence line at or after i, 0 when there is none
RECURSIVE NextFence(_, _)
NextFence(lines, i) ==
    IF i > Len(lines) THEN 0
    ELSE IF lines[i].fence THEN i
    ELSE NextFence(lines, i + 1)

\* block_pattern.findall(response): the matches of ```header\ncontent```,
\* left to right and not overlapping.  A match opens at a fence line, its
\* header is the rest of that line, and it closes at the next three
\* backticks, whatever follows them on their line; the scan resumes after
\* the closing backticks.  An opening fence that is never closed matches
\* nothing.
RECURSIVE FindAllFrom(_, _)
FindAllFrom(lines, i) ==
    LET a == NextFence(lines, i)
        b == IF a = 0 THEN 0 ELSE NextFence(lines, a + 1)
    IN  IF a = 0 \/ b = 0 THEN <<>>
        ELSE <<[header |-> lines[a].header,
                content |-> [k \in 1..(b - a - 1) |-> lines[a + k].text]]>>
             \o FindAllFrom(lines, b + 1)

FindAll(lines) == FindAllFrom(lines, 1)

\* header.strip().split()
Tokens(header) == SelectSeq(header, LAMBDA x : x # " ")

\* mutant: every single token taken for a filename
is_filename_AnyTag(t) == TRUE

\* is_filename(t)
is_filename(t) == HasDot(t) \/ HasSlash(t) \/ t = "task_plan.md"

\* mutant: the command tag compared without regard to case
IsCommandHeader_AnyCase(tokens) ==
    Len(tokens) = 1 /\ tokens[1] \in {"bash", "sh", "shell", "Bash"}

\* mutant: a command tag in front of a filename makes a command
IsCommandHeader_FirstToken(tokens) ==
    Len(tokens) >= 1 /\ tokens[1] \in {"bash", "sh", "shell"}

\* the command test of save_files_from_response
IsCommandHeader(tokens) ==
    Len(tokens) = 1 /\ tokens[1] \in {"bash", "sh", "shell"}

\* filename = None
NoFilename == ""

\* mutant: len(tokens) >= 1 where the code has len(tokens) >= 2
FilenameOf_AnyToken(tokens) ==
    IF Len(tokens) >= 1 THEN tokens[Len(tokens)] ELSE NoFilename

\* the filename a header names, NoFilename when it names none
FilenameOf(tokens) ==
    IF Len(tokens) >= 2 THEN tokens[Len(tokens)]
    ELSE IF Len(tokens) = 1 /\ is_filename(tokens[1]) THEN tokens[1]
    ELSE NoFilename

\* mutant: the test for a leading "/" left out
IsUnsafe_DotsOnly(filename) == HasDotDot(filename)

\* the safety test on a filename
IsUnsafe(filename) == HasDotDot(filename) \/ StartsWithSlash(filename)

\* mutant: mkdir puts a directory in the place of a regular file
WriteFile_ReplacesParent(f, p, content) ==
    LET par == Parent(p)
        f1 == IF par # "." THEN [f EXCEPT ![par] = Dir] ELSE f
    IN  IF f1[p].kind = "dir"
        THEN [fs |-> f1, ok |-> FALSE]
        ELSE [fs |-> [f1 EXCEPT ![p] = File(content)], ok |-> TRUE]

\* mutant: a file that exists is left as it is
WriteFile_KeepsExisting(f, p, content) ==
    LET par == Parent(p)
    IN  IF par # "." /\ f[par].kind = "file"
        THEN [fs |-> f, ok |-> FALSE]
        ELSE LET f1 == IF par # "." THEN [f EXCEPT ![par] = Dir] ELSE f
             IN  IF f1[p].kind = "dir"
                 THEN [fs |-> f1, ok |-> FALSE]
                 ELSE IF f1[p].kind = "file"
                 THEN [fs |-> f1, ok |-> TRUE]
                 ELSE [fs |-> [f1 EXCEPT ![p] = File(content)], ok |-> TRUE]

\* mutant: the file opened for appending
WriteFile_AppendMode(f, p, content) ==
    LET par == Parent(p)
    IN  IF par # "." /\ f[par].kind = "file"
        THEN [fs |-> f, ok |-> FALSE]
        ELSE LET f1 == IF par # "." THEN [f EXCEPT ![par] = Dir] ELSE f
             IN  IF f1[p].kind = "dir"
                 THEN [fs |-> f1, ok |-> FALSE]
                 ELSE [fs |-> [f1 EXCEPT ![p] = File(f1[p].text \o content)],
                       ok |-> TRUE]

\* mutant: the content stripped before it is written
WriteFile_Stripped(f, p, content) ==
    LET par == Parent(p)
    IN  IF par # "." /\ f[par].kind = "file"
        THEN [fs |-> f, ok |-> FALSE]
        ELSE LET f1 == IF par # "." THEN [f EXCEPT ![par] = Dir] ELSE f
             IN  IF f1[p].kind = "dir"
                 THEN [fs |-> f1, ok |-> FALSE]
                 ELSE [fs |-> [f1 EXCEPT ![p] = File(StripText(content))],
                       ok |-> TRUE]

\* path.parent.mkdir(parents=True, exist_ok=True); path.write_text(content)
\* on workspace f.  mkdir raises when the parent is a regular file,
\* write_text raises when the path is a directory; ok tells whether both
\* returned.  The directory mkdir made stays when write_text raises.
WriteFile(f, p, content) ==
    LET par == Parent(p)
    IN  IF par # "." /\ f[par].kind = "file"
        THEN [fs |-> f, ok |-> FALSE]
        ELSE LET f1 == IF par # "." THEN [f EXCEPT ![par] = Dir] ELSE f
             IN  IF f1[p].kind = "dir"
                 THEN [fs |-> f1, ok |-> FALSE]
                 ELSE [fs |-> [f1 EXCEPT ![p] = File(content)], ok |-> TRUE]

\* mutant: the path listed whether or not the block was written
ProcessBlock_ListsAll(os, st, block) ==
    LET tokens == Tokens(block.header)
        filename == FilenameOf(tokens)
    IN  IF IsCommandHeader(tokens)
        THEN [st EXCEPT !.commands = Append(@, StripText(block.content))]
        ELSE IF filename = NoFilename THEN st
        ELSE IF IsUnsafe(filename)
        THEN [st EXCEPT !.saved_files = Append(@, PathStr(os, filename))]
        ELSE LET w == WriteFile(st.fs, Canon(filename), block.content)
             IN  [st EXCEPT !.fs = w.fs,
                            !.saved_files = Append(@, PathStr(os, filename))]

\* mutant: a command put in front of the commands found so far
ProcessBlock_Prepend(os, st, block) ==
    LET tokens == Tokens(block.header)
        filename == FilenameOf(tokens)
    IN  IF IsCommandHeader(tokens)
        THEN [st EXCEPT !.commands = <<StripText(block.content)>> \o @]
        ELSE IF filename = NoFilename THEN st
        ELSE IF IsUnsafe(filename) THEN st
        ELSE LET w == WriteFile(st.fs, Canon(filename), block.content)
             IN  IF w.ok
                 THEN [st EXCEPT !.fs = w.fs,
                                 !.saved_files = Append(@, PathStr(os, filename))]
                 ELSE [st EXCEPT !.fs = w.fs]

\* one iteration of the loop over the matches; st = [fs, saved_files,
\* commands]
ProcessBlock(os, st, block) ==
    LET tokens == Tokens(block.header)
        filename == FilenameOf(tokens)
    IN  IF IsCommandHeader(tokens)
        THEN [st EXCEPT !.commands = Append(@, StripText(block.content))]
        ELSE IF filename = NoFilename THEN st
        ELSE IF IsUnsafe(filename) THEN st
        ELSE LET w == WriteFile(st.fs, Canon(filename), block.content)
             IN  IF w.ok
                 THEN [st EXCEPT !.fs = w.fs,
                                 !.saved_files = Append(@, PathStr(os, filename))]
                 ELSE [st EXCEPT !.fs = w.fs]

RECURSIVE ProcessBlocks(_, _, _)
ProcessBlocks(os, st, blocks) ==
    IF blocks = <<>> THEN st
    ELSE ProcessBlocks(os, ProcessBlock(os, st, Head(blocks)), Tail(blocks))

\* TaskManager.save_files_from_response, on workspace f
save_files_from_response(os, f, resp) ==
    ProcessBlocks(os, [fs |-> f, saved_files |-> <<>>, commands |-> <<>>],
                  FindAll(resp))

\* TaskManager.parse_response
parse_response(os, f, resp) == save_files_from_response(os, f, resp)

\* TaskManager.exists
PlanExists(f) == f[TASK_FILE].kind # "absent"

-----------------------------------------------------------------------------
(* Inputs: responses are built from fence chunks.                          *)

PlanOpen ==
    <<"# Task Plan: Demo", "## Goal", "Test the parser", "## Phases",
      "- [ ] Phase 1: Setup", "## Status", "In progress">>

PlanDone == <<"## Status", "Status: Complete">>

PlanPhase4 == <<"## Phases", "- [x] Phase 4: Review">>

PlanFallback == <<"# Task Plan: Fallback", "## Phases", "- [ ] P1">>

Code == <<"print(x)">>

\* a chunk: an opening fence with its header, the body lines and, when
\* closed, the closing fence
Chunk(header, body, closed) ==
    [header |-> header, body |-> body, closed |-> closed]

ChunkLines(c) ==
    <<FenceLine(c.header)>>
    \o [k \in 1..Len(c.body) |-> TextLine(c.body[k])]
    \o (IF c.closed THEN <<FenceLine(<<>>)>> ELSE <<>>)

RECURSIVE Flatten(_)
Flatten(chunks) ==
    IF chunks = <<>> THEN <<>>
    ELSE ChunkLines(Head(chunks)) \o Flatten(Tail(chunks))

\* the sequences over S of length at most n
SeqsUpTo(S, n) == UNION {[1..k -> S] : k \in 0..n}

-----------------------------------------------------------------------------
(* CommandExecutor and the shell helpers.                                  *)

\* the ceiling on the length of a foreground command's output
OUTPUT_CEILING == 2000

\* len("[exit 1]\n"), the marker put before the output of a failed command
EXIT_MARKER_LEN == 9

\* stripped.lower() in directive_tokens
IsDirective(line) ==
    LowerLine(StripLine(line)) \in {"# background", "# bg", "# detach"}

\* the loop of parse_command_directives over the lines from position i on
RECURSIVE DirectiveLoop(_, _, _, _)
DirectiveLoop(lines, i, cleaned_lines, run_in_background) ==
    IF i > Len(lines)
    THEN [cleaned_lines |-> cleaned_lines,
          run_in_background |-> run_in_background]
    ELSE IF cleaned_lines = <<>> /\ ~IsBlankLine(lines[i])
            /\ IsDirective(lines[i])
         THEN DirectiveLoop(lines, i + 1, cleaned_lines, TRUE)
         ELSE DirectiveLoop(lines, i + 1, Append(cleaned_lines, lines[i]),
                            run_in_background)

\* mutant: a directive looked for on the first line only
parse_command_directives_FirstLine(command) ==
    IF command # <<>> /\ IsDirective(command[1])
    THEN [command |-> StripText(Tail(command)), run_in_background |-> TRUE]
    ELSE [command |-> StripText(command), run_in_background |-> FALSE]

\* parse_command_directives(command) -> (cleaned_command, run_in_background)
parse_command_directives(command) ==
    LET r == DirectiveLoop(command, 1, <<>>, FALSE)
    IN  [command |-> StripText(r.cleaned_lines),
         run_in_background |-> r.run_in_background]

\* describe_shell()[1]
ShellFamily(os) == IF os = "nt" THEN "windows-cmd" ELSE "posix-sh"

\* stripped.startswith("#")
StartsWithHash(l) == l \in {"# background", "# bg", "# BG", "# detach"}

\* stripped == "ls" or stripped.startswith("ls ")
IsLs(l) == l \in {"ls", "ls -la"}

\* "dir" or f"dir {stripped[3:]}"
LsToDir(l) == IF l = "ls" THEN "dir" ELSE "dir -la"

RECURSIVE NormalizeLines(_)
NormalizeLines(lines) ==
    IF lines = <<>> THEN <<>>
    ELSE LET line == Head(lines)
             stripped == StripLine(line)
             rest == NormalizeLines(Tail(lines))
         IN  IF stripped = "" THEN <<line>> \o rest
             ELSE IF StartsWithHash(stripped) THEN rest
             ELSE IF IsLs(stripped) THEN <<LsToDir(stripped)>> \o rest
             ELSE <<line>> \o rest

\* normalize_command_for_shell(command)
normalize_command_for_shell(os, command) ==
    IF ShellFamily(os) # "windows-cmd" THEN command
    ELSE NormalizeLines(command)

\* a result string of execute: kind is the fixed message, or "output" for
\* the captured output of a process, of which exit, len and truncated tell
\* the exit code, the length before the truncation marker and whether the
\* marker was appended
Msg(kind) == [kind |-> kind, exit |-> 0, len |-> 0, truncated |-> FALSE]

\* input("Allow? [y/N]: ").strip().lower() for the answers of the model
AnswerNorm(answer) ==
    CASE answer = " YES " -> "yes"
      [] answer = "Y" -> "y"
      [] OTHER -> answer

\* mutant: the choice test left out
IsApproved_Always(choice) == TRUE

\* the choice test of execute
IsApproved(choice) == choice \in {"y", "yes"}

\* mutant: the isatty test left out
Confirm_NoTtyTest(tty, answer) ==
    IF answer \in {"EOF", "INT"} THEN "cancelled"
    ELSE IF ~IsApproved(AnswerNorm(answer)) THEN "denied"
    ELSE "allowed"

\* the confirmation of execute: "no_input" when stdin is missing or no
\* terminal, "cancelled" when input() raises EOFError or KeyboardInterrupt,
\* "denied" or "allowed" by the answer
Confirm(tty, answer) ==
    IF ~tty THEN "no_input"
    ELSE IF answer \in {"EOF", "INT"} THEN "cancelled"
    ELSE IF ~IsApproved(AnswerNorm(answer)) THEN "denied"
    ELSE "allowed"

\* what subprocess.run does: ends with an exit code and len characters of
\* output, times out, or raises.  The output captured before a timeout
\* comes in the attributes of TimeoutExpired: as text where run() collects
\* it again after the kill (Windows), as undecoded bytes elsewhere, on both
\* streams ("timeout") or on one of them only ("timeout_bytes").
ProcResults ==
    {[end |-> "exit", code |-> 0, len |-> 6],
     [end |-> "exit", code |-> 1, len |-> 6],
     [end |-> "exit", code |-> 0, len |-> OUTPUT_CEILING + 1],
     [end |-> "timeout", code |-> 0, len |-> 0],
     [end |-> "timeout", code |-> 0, len |-> OUTPUT_CEILING + 1],
     [end |-> "timeout_bytes", code |-> 0, len |-> OUTPUT_CEILING + 1],
     [end |-> "error", code |-> 0, len |-> 0]}

\* execute left by an exception instead of a result string
Raised == Msg("TypeError")

\* (e.stdout or "") + (e.stderr or "") in the timeout handler: bytes of one
\* stream and "" for the other cannot be joined; the TypeError is raised
\* inside the handler, where no except clause of execute catches it
TimeoutRaises(os, r) == r.end = "timeout_bytes" /\ os = "posix"

\* the foreground branch of execute, given what subprocess.run did
ForegroundResult(r) ==
    CASE r.end = "exit" ->
            LET n == r.len + (IF r.code # 0 THEN EXIT_MARKER_LEN ELSE 0)
            IN  [kind |-> "output", exit |-> r.code,
                 len |-> IF n > OUTPUT_CEILING THEN OUTPUT_CEILING ELSE n,
                 truncated |-> n > OUTPUT_CEILING]
      [] r.end \in {"timeout", "timeout_bytes"} ->
            IF r.len > 0
            THEN [kind |-> "...[Command timed out]...", exit |-> 0,
                  len |-> r.len, truncated |-> FALSE]
            ELSE Msg("Command timed out.")
      [] OTHER -> Msg("Error executing command")

\* the audit line of a background command
LogLine == "[bg] <time> pid=<pid> <command>"

\* mutant: the notes file opened for writing
LogBackground_Overwrite(f) ==
    IF f[NOTES_FILE].kind = "dir" THEN f
    ELSE [f EXCEPT ![NOTES_FILE] = File(<<LogLine>>)]

\* _log_background_command: append one line to notes.md; a failure to
\* write is caught
LogBackground(f) ==
    IF f[NOTES_FILE].kind = "dir" THEN f
    ELSE [f EXCEPT ![NOTES_FILE] =
             File(Append(f[NOTES_FILE].text, LogLine))]

\* _execute_background, given whether Popen raised
ExecuteBackground(f, r) ==
    IF r.end = "error"
    THEN [fs |-> f, out |-> Msg("Error executing background command"),
          started |-> "none"]
    ELSE [fs |-> LogBackground(f),
          out |-> Msg("Started background process (pid N)."),
          started |-> "bg"]

\* what a finished foreground process did to the workspace: of the
\* commands of the model only a successful rm changes it
ProcessEffect(f, command, r) ==
    IF command = <<"rm task_plan.md">> /\ r.end = "exit" /\ r.code = 0
       /\ f[TASK_FILE].kind = "file"
    THEN [f EXCEPT ![TASK_FILE] = Absent]
    ELSE f

\* mutant: the test for an empty command left out
execute_NoEmptyTest(os, f, command, tty, answer, r) ==
    LET d == parse_command_directives(command)
        normalized_command == normalize_command_for_shell(os, d.command)
        c == Confirm(tty, answer)
        rec(out, asked, started, g) ==
            [out |-> out, fs |-> g, command |-> normalized_command,
             cleaned |-> d.command, bg |-> d.run_in_background,
             asked |-> asked, started |-> started]
    IN  IF c = "no_input"
        THEN rec(Msg("Command execution skipped (no interactive input)."),
                 FALSE, "none", f)
        ELSE IF c = "cancelled"
        THEN rec(Msg("Command execution skipped by user."), TRUE, "none", f)
        ELSE IF c = "denied"
        THEN rec(Msg("User denied command execution."), TRUE, "none", f)
        ELSE IF d.run_in_background
        THEN LET b == ExecuteBackground(f, r)
             IN  rec(b.out, TRUE, b.started, b.fs)
        ELSE IF TimeoutRaises(os, r)
        THEN rec(Raised, TRUE, "fg", f)
        ELSE rec(ForegroundResult(r), TRUE,
                 IF r.end = "error" THEN "none" ELSE "fg",
                 ProcessEffect(f, normalized_command, r))

\* CommandExecutor.execute(command) on workspace f.  tty: sys.stdin is a
\* terminal; answer: what input() returns, or "EOF" / "INT" for the
\* exception it raises; r: what the process does when started.
\* Returns the result string and the workspace, and tells what
\* parse_command_directives returned (cleaned, bg), the command shown to
\* the operator, whether input() was called and what was started ("fg",
\* "bg" or "none").
execute(os, f, command, tty, answer, r) ==
    LET d == parse_command_directives(command)
        normalized_command == normalize_command_for_shell(os, d.command)
        c == Confirm(tty, answer)
        rec(out, asked, started, g) ==
            [out |-> out, fs |-> g, command |-> normalized_command,
             cleaned |-> d.command, bg |-> d.run_in_background,
             asked |-> asked, started |-> started]
    IN  IF d.command = <<>>
        THEN rec(Msg("Command execution skipped (empty command)."),
                 FALSE, "none", f)
        ELSE IF c = "no_input"
        THEN rec(Msg("Command execution skipped (no interactive input)."),
                 FALSE, "none", f)
        ELSE IF c = "cancelled"
        THEN rec(Msg("Command execution skipped by user."), TRUE, "none", f)
        ELSE IF c = "denied"
        THEN rec(Msg("User denied command execution."), TRUE, "none", f)
        ELSE IF d.run_in_background
        THEN LET b == ExecuteBackground(f, r)
             IN  rec(b.out, TRUE, b.started, b.fs)
        ELSE IF TimeoutRaises(os, r)
        THEN rec(Raised, TRUE, "fg", f)
        ELSE rec(ForegroundResult(r), TRUE,
                 IF r.end = "error" THEN "none" ELSE "fg",
                 ProcessEffect(f, normalized_command, r))

-----------------------------------------------------------------------------
(* The workspaces and the responses the specifications start from.         *)

EmptyFs == [p \in FsPaths |-> Absent]

\* the error log an earlier run has left
ErrorLog == <<"known error">>

\* a workspace left by an earlier run: a plan, the error log the seeding
\* prompt asks for, a script and a directory
PlanFs ==
    [EmptyFs EXCEPT !["task_plan.md"] = File(PlanOpen),
                    ![ERROR_FILE] = File(ErrorLog),
                    !["script.py"] = File(<<"old">>),
                    !["dir"] = Dir]

\* a workspace whose plan already carries a termination marker
DoneFs == [EmptyFs EXCEPT !["task_plan.md"] = File(PlanDone)]

\* a body that starts and ends with blank lines
BlankedLs == <<"", "ls -la", "   ">>

MdPlan == <<"markdown", " ", "task_plan.md">>

\* blocks that name a file with a safe path
FileChunks ==
    {Chunk(MdPlan, PlanOpen, TRUE),
     Chunk(MdPlan, BlankedLs, TRUE),
     Chunk(<<" ", "python", " ", "script.py">>, Code, TRUE),
     Chunk(<<"python", " ", " ", "dir/file.py", " ">>, BlankedLs, TRUE),
     Chunk(<<"python", " ", "my", " ", "script.py">>, BlankedLs, TRUE),
     Chunk(<<"markdown", " ", "./task_plan.md">>, PlanDone, TRUE),
     Chunk(<<"markdown", " ", "task_plan.md#Status">>, Code, TRUE),
     Chunk(<<"bash", " ", "run.sh">>, BlankedLs, TRUE),
     Chunk(<<"text", " ", "dir">>, Code, TRUE),
     Chunk(<<"python", " ", "task_plan.md/x.py">>, Code, TRUE),
     Chunk(<<"run.sh">>, Code, TRUE),
     Chunk(<<"task_plan.md">>, PlanPhase4, TRUE)}

\* blocks whose path holds ".." or starts with "/"
UnsafeChunks ==
    {Chunk(<<"python", " ", "../evil.py">>, Code, TRUE),
     Chunk(<<"text", " ", "/etc/passwd">>, Code, TRUE),
     Chunk(<<"markdown", " ", "out/../evil.py">>, PlanOpen, TRUE),
     Chunk(<<"/etc/passwd">>, Code, TRUE)}

\* blocks headed by a command tag alone
CommandChunks ==
    {Chunk(<<"bash">>, BlankedLs, TRUE),
     Chunk(<<"bash">>, <<>>, TRUE),
     Chunk(<<"sh">>, <<"ls -la">>, TRUE),
     Chunk(<<"shell">>, <<"# background", "sleep 100">>, TRUE),
     Chunk(<<" ", "bash", " ">>, <<"ls -la">>, TRUE)}

\* blocks headed by one token that is no command tag and no filename, or
\* by nothing
BareChunks ==
    {Chunk(<<"python">>, Code, TRUE),
     Chunk(<<"markdown">>, PlanOpen, TRUE),
     Chunk(<<"markdown">>, PlanFallback, TRUE),
     Chunk(<<"Bash">>, <<"ls -la">>, TRUE),
     Chunk(<<>>, PlanOpen, TRUE)}

\* a fence that is never closed
OpenChunks == {Chunk(MdPlan, PlanDone, FALSE)}

ParseChunks ==
    FileChunks \cup UnsafeChunks \cup CommandChunks \cup BareChunks
    \cup OpenChunks

ParseResponses == {Flatten(cs) : cs \in SeqsUpTo(ParseChunks, MaxBlocks)}

NoExec ==
    [called |-> FALSE, cmd |-> <<>>, command |-> <<>>, cleaned |-> <<>>,
     bg |-> FALSE, tty |-> FALSE, answer |-> "", asked |-> FALSE,
     started |-> "none", out |-> Msg("")]

NoPrompt ==
    [built |-> FALSE, plan |-> <<>>, context |-> <<>>, alert |-> FALSE,
     cmdout |-> <<>>]

-----------------------------------------------------------------------------
(* The parser specification: save_files_from_response on one response and  *)
(* one workspace, one match of the loop at a time.                         *)

InitParse ==
    /\ osName \in {"posix", "nt"}
    /\ fs \in {EmptyFs, PlanFs}
    /\ response \in ParseResponses
    /\ pc = "parse"
    /\ goal = FALSE
    /\ continue_mode = FALSE
    /\ workdir = "none"
    /\ turns = 0
    /\ context_file = FALSE
    /\ turn = 0
    /\ missed_plan_update = FALSE
    /\ last_command_output = <<>>
    /\ prompt = NoPrompt
    /\ saved_files = <<>>
    /\ command_to_run = <<>>
    /\ cmdIdx = 0
    /\ calls = 0
    /\ seed_calls = 0
    /\ matches = <<>>
    /\ blockIdx = 0
    /\ lastExec = NoExec
    /\ BuildIdle

\* the head of save_files_from_response: the matches are found and the two
\* result lists start empty
ParseBegin ==
    /\ pc = "parse"
    /\ matches' = FindAll(response)
    /\ saved_files' = <<>>
    /\ command_to_run' = <<>>
    /\ blockIdx' = 1
    /\ pc' = "blocks"
    /\ UNCHANGED <<osName, goal, continue_mode, workdir, turns, context_file,
                   fs, turn, missed_plan_update, last_command_output, prompt,
                   response, cmdIdx, calls, seed_calls, lastExec>>
    /\ UNCHANGED buildVars

\* one iteration of the loop over the matches
ParseBlock ==
    /\ pc = "blocks"
    /\ blockIdx <= Len(matches)
    /\ LET st == ProcessBlock(osName,
                              [fs |-> fs, saved_files |-> saved_files,
                               commands |-> command_to_run],
                              matches[blockIdx])
       IN  /\ fs' = st.fs
           /\ saved_files' = st.saved_files
           /\ command_to_run' = st.commands
    /\ blockIdx' = blockIdx + 1
    /\ UNCHANGED <<osName, goal, continue_mode, workdir, turns, context_file,
                   pc, turn, missed_plan_update, last_command_output, prompt,
                   response, cmdIdx, calls, seed_calls, matches, lastExec>>
    /\ UNCHANGED buildVars

\* return saved_files, commands
ParseReturn ==
    /\ pc = "blocks"
    /\ blockIdx > Len(matches)
    /\ pc' = "parsed"
    /\ UNCHANGED <<osName, goal, continue_mode, workdir, turns, context_file,
                   fs, turn, missed_plan_update, last_command_output, prompt,
                   response, saved_files, command_to_run, cmdIdx, calls,
                   seed_calls, matches, blockIdx, lastExec>>
    /\ UNCHANGED buildVars

NextParse ==
    \/ ParseBegin
    \/ ParseBlock
    \/ ParseReturn

SpecParse == InitParse /\ [][NextParse]_vars

\* what a file can hold when path.write_text is cut short: open(path, "w")
\* has emptied it, and none or a part of the new content has reached it
TornTexts(content) == {SubSeq(content, 1, n) : n \in 0..(Len(content) - 1)}

\* the process is interrupted (KeyboardInterrupt, which `except Exception`
\* does not catch, or a kill) while save_files_from_response is in its
\* loop: between two statements, which leaves the workspace as it is, or
\* inside the write_text of the block at hand, after mkdir and open
Interrupt ==
    /\ pc = "blocks"
    /\ \/ fs' = fs
       \/ /\ blockIdx <= Len(matches)
          /\ LET block == matches[blockIdx]
                 tokens == Tokens(block.header)
                 filename == FilenameOf(tokens)
                 w == WriteFile(fs, Canon(filename), block.content)
             IN  /\ ~IsCommandHeader(tokens)
                 /\ filename # NoFilename
                 /\ ~IsUnsafe(filename)
                 /\ w.ok
                 /\ \E part \in TornTexts(block.content) :
                       fs' = [w.fs EXCEPT ![Canon(filename)] = File(part)]
    /\ pc' = "interrupted"
    /\ UNCHANGED <<osName, goal, continue_mode, workdir, turns, context_file,
                   turn, missed_plan_update, last_command_output, prompt,
                   response, saved_files, command_to_run, cmdIdx, calls,
                   seed_calls, matches, blockIdx, lastExec>>
    /\ UNCHANGED buildVars

NextInterrupt ==
    \/ ParseBegin
    \/ ParseBlock
    \/ ParseReturn
    \/ Interrupt

\* save_files_from_response on one response, with an interrupt at any
\* point of its loop
SpecInterrupt == InitParse /\ [][NextInterrupt]_vars

-----------------------------------------------------------------------------
(* run_agent: the turn loop.                                               *)

ContextText == <<"workspace context">>

\* TaskManager.read_plan, where it returns: it raises when the plan path
\* is a directory
read_plan(f) ==
    IF ~PlanExists(f) THEN NO_PLAN ELSE f[TASK_FILE].text

PlanUnreadable(f) == f[TASK_FILE].kind = "dir"

\* mutant: any saved file taken for an update of the plan
PlanUpdated_AnySaved(saved) == saved # <<>>

\* str(TASK_FILE) in saved_files
PlanUpdated(saved) == \E i \in 1..Len(saved) : saved[i] = TASK_FILE

\* mutant: the checked Phase 4 item not taken for a marker
HasTerminationMarker_StatusOnly(plan) == TextHasSub(plan, "Status: Complete")

\* the marker test of the completion check
HasTerminationMarker(plan) ==
    TextHasSub(plan, "[x] Phase 4") \/ TextHasSub(plan, "Status: Complete")

\* mutant: range(turns + 1) where the code has range(1, turns + 1)
LoopFinished_OneMore(t, n) == t > n

\* the for loop has run range(1, turns + 1) out after t turns
LoopFinished(t, n) == t >= n

\* the responses the backend gives in the agent specification
AgentResponses ==
    {<<>>,
     Flatten(<<Chunk(MdPlan, PlanOpen, TRUE),
               Chunk(<<"bash">>, <<"ls -la">>, TRUE)>>),
     Flatten(<<Chunk(MdPlan, PlanDone, TRUE)>>),
     Flatten(<<Chunk(<<"python", " ", "script.py">>, Code, TRUE),
               Chunk(<<"bash">>, <<"# background", "sleep 100">>, TRUE),
               Chunk(<<"sh">>, <<"rm task_plan.md">>, TRUE)>>),
     Flatten(<<Chunk(<<"markdown">>, PlanOpen, TRUE)>>),
     Flatten(<<Chunk(<<"python", " ", "../evil.py">>, Code, TRUE),
               Chunk(<<"markdown", " ", "/ws/task_plan.md">>, PlanDone, TRUE),
               Chunk(<<"bash">>, <<"  # BG  ">>, TRUE),
               Chunk(<<"bash">>, <<>>, TRUE)>>),
     Flatten(<<Chunk(<<"task_plan.md">>, PlanPhase4, TRUE),
               Chunk(<<"bash">>, <<"ls -la">>, TRUE)>>),
     Flatten(<<Chunk(<<"python", " ", "task_plan.md/x.py">>, Code, TRUE),
               Chunk(<<"sh">>, <<"ls -la">>, TRUE)>>),
     Flatten(<<Chunk(<<"markdown", " ", "./task_plan.md">>, PlanDone, FALSE),
               Chunk(<<"bash">>, <<"ls -la">>, TRUE)>>),
     Flatten(<<Chunk(<<"sh">>, <<"rm task_plan.md">>, TRUE),
               Chunk(MdPlan, PlanDone, TRUE)>>)}

\* the responses to the seeding prompt of initialize_plan
SeedResponses ==
    {<<>>,
     Flatten(<<Chunk(MdPlan, PlanOpen, TRUE),
               Chunk(<<"bash">>, <<"ls -la">>, TRUE)>>),
     Flatten(<<Chunk(MdPlan, PlanDone, TRUE)>>)}

\* what the operator types at "Allow? [y/N]: ", "EOF" and "INT" standing
\* for end of input and an interrupt
Answers == {"y", " YES ", "n", "EOF", "INT"}

\* what happens around one execute call: whether stdin is a terminal, what
\* the operator answers and what the process does.  The ways a process can
\* end are told apart only where the operator lets it start.
Interactions ==
    {x \in [tty : BOOLEAN, answer : Answers, r : ProcResults] :
        \/ x.r = [end |-> "exit", code |-> 0, len |-> 6]
        \/ x.tty /\ x.answer \in {"y", " YES "}}

Init ==
    /\ osName \in {"posix", "nt"}
    /\ goal \in BOOLEAN
    /\ continue_mode \in BOOLEAN
    /\ workdir \in {"none", "dir", "notdir"}
    /\ turns \in 0..MaxTurns
    /\ context_file \in BOOLEAN
    /\ fs \in {EmptyFs, PlanFs, DoneFs}
    /\ pc = "start"
    /\ turn = 0
    /\ missed_plan_update = FALSE
    /\ last_command_output = <<>>
    /\ prompt = NoPrompt
    /\ response = <<>>
    /\ saved_files = <<>>
    /\ command_to_run = <<>>
    /\ cmdIdx = 0
    /\ calls = 0
    /\ seed_calls = 0
    /\ matches = <<>>
    /\ blockIdx = 0
    /\ lastExec = NoExec
    /\ BuildIdle

\* mutant: a goal given with a plan on disk seeds the plan anew
Start_NoConflictTest ==
    /\ pc = "start"
    /\ pc' = IF workdir = "notdir" THEN "exit1"
             ELSE IF ~continue_mode /\ goal THEN "seed"
             ELSE IF ~continue_mode /\ ~PlanExists(fs) THEN "exit1"
             ELSE "loop"
    /\ UNCHANGED <<osName, goal, continue_mode, workdir, turns, context_file,
                   fs, turn, missed_plan_update, last_command_output, prompt,
                   response, saved_files, command_to_run, cmdIdx, calls,
                   seed_calls, matches, blockIdx, lastExec>>
    /\ UNCHANGED buildVars

\* mutant: the completion check made before the first turn as well
Start_ChecksMarker ==
    /\ pc = "start"
    /\ pc' = IF workdir = "notdir" THEN "exit1"
             ELSE IF ~continue_mode /\ ~PlanExists(fs)
                  THEN (IF ~goal THEN "exit1" ELSE "seed")
             ELSE IF goal /\ ~continue_mode /\ PlanExists(fs) THEN "exit1"
             ELSE IF HasTerminationMarker(read_plan(fs)) THEN "done"
             ELSE "loop"
    /\ UNCHANGED <<osName, goal, continue_mode, workdir, turns, context_file,
                   fs, turn, missed_plan_update, last_command_output, prompt,
                   response, saved_files, command_to_run, cmdIdx, calls,
                   seed_calls, matches, blockIdx, lastExec>>
    /\ UNCHANGED buildVars

\* run_agent up to the loop: the workdir test and the initialization phase
Start ==
    /\ pc = "start"
    /\ pc' = IF workdir = "notdir" THEN "exit1"
             ELSE IF ~continue_mode /\ ~PlanExists(fs)
                  THEN (IF ~goal THEN "exit1" ELSE "seed")
             ELSE IF goal /\ ~continue_mode /\ PlanExists(fs) THEN "exit1"
             ELSE "loop"
    /\ UNCHANGED <<osName, goal, continue_mode, workdir, turns, context_file,
                   fs, turn, missed_plan_update, last_command_output, prompt,
                   response, saved_files, command_to_run, cmdIdx, calls,
                   seed_calls, matches, blockIdx, lastExec>>
    /\ UNCHANGED buildVars

\* mutant: the saved paths of the seeding call kept and tested for the plan
Seed_SetsFlag ==
    /\ pc = "seed"
    /\ \E resp \in SeedResponses :
          LET r == save_files_from_response(osName, fs, resp)
          IN  /\ fs' = r.fs
              /\ saved_files' = r.saved_files
              /\ missed_plan_update' = ~PlanUpdated(r.saved_files)
    /\ seed_calls' = seed_calls + 1
    /\ pc' = "loop"
    /\ UNCHANGED <<osName, goal, continue_mode, workdir, turns, context_file,
                   turn, last_command_output, prompt, response,
                   command_to_run, cmdIdx, calls, matches, blockIdx,
                   lastExec>>
    /\ UNCHANGED buildVars

\* mutant: the seeding call made a second time
Seed_Twice ==
    /\ pc = "seed"
    /\ \E resp \in SeedResponses :
          fs' = save_files_from_response(osName, fs, resp).fs
    /\ seed_calls' = seed_calls + 2
    /\ pc' = "loop"
    /\ UNCHANGED <<osName, goal, continue_mode, workdir, turns, context_file,
                   turn, missed_plan_update, last_command_output, prompt,
                   response, saved_files, command_to_run, cmdIdx, calls,
                   matches, blockIdx, lastExec>>
    /\ UNCHANGED buildVars

\* initialize_plan: one backend call, whose file blocks are applied and
\* whose saved paths and commands are dropped
Seed ==
    /\ pc = "seed"
    /\ \E resp \in SeedResponses :
          fs' = save_files_from_response(osName, fs, resp).fs
    /\ seed_calls' = seed_calls + 1
    /\ pc' = "loop"
    /\ UNCHANGED <<osName, goal, continue_mode, workdir, turns, context_file,
                   turn, missed_plan_update, last_command_output, prompt,
                   response, saved_files, command_to_run, cmdIdx, calls,
                   matches, blockIdx, lastExec>>
    /\ UNCHANGED buildVars

\* mutant: a failed call of the turn loop made again
BackendFails_Retries ==
    /\ pc \in {"seed", "generate"}
    /\ IF pc = "seed"
       THEN seed_calls' = seed_calls + 1 /\ calls' = calls /\ pc' = "crashed"
       ELSE calls' = calls + 1 /\ seed_calls' = seed_calls /\ pc' = "generate"
    /\ UNCHANGED <<osName, goal, continue_mode, workdir, turns, context_file,
                   fs, turn, missed_plan_update, last_command_output, prompt,
                   response, saved_files, command_to_run, cmdIdx, matches,
                   blockIdx, lastExec>>
    /\ UNCHANGED buildVars

\* client.generate raises (requests.post or raise_for_status fails);
\* neither initialize_plan nor run_agent catches it
BackendFails ==
    /\ pc \in {"seed", "generate"}
    /\ IF pc = "seed"
       THEN seed_calls' = seed_calls + 1 /\ calls' = calls
       ELSE calls' = calls + 1 /\ seed_calls' = seed_calls
    /\ pc' = "crashed"
    /\ UNCHANGED <<osName, goal, continue_mode, workdir, turns, context_file,
                   fs, turn, missed_plan_update, last_command_output, prompt,
                   response, saved_files, command_to_run, cmdIdx, matches,
                   blockIdx, lastExec>>
    /\ UNCHANGED buildVars

\* mutant: the pending command output not cleared when it is used
BeginTurn_KeepsOutput ==
    /\ pc = "loop"
    /\ IF LoopFinished(turn, turns)
       THEN /\ pc' = "exhausted"
            /\ UNCHANGED <<turn, prompt, missed_plan_update,
                           last_command_output>>
       ELSE IF PlanUnreadable(fs)
       THEN /\ pc' = "crashed"
            /\ turn' = turn + 1
            /\ UNCHANGED <<prompt, missed_plan_update, last_command_output>>
       ELSE /\ pc' = "generate"
            /\ turn' = turn + 1
            /\ \E context_exists \in BOOLEAN :
                  prompt' =
                      [built |-> TRUE,
                       plan |-> read_plan(fs),
                       context |-> IF context_file /\ context_exists
                                   THEN ContextText ELSE <<>>,
                       alert |-> missed_plan_update,
                       cmdout |-> last_command_output]
            /\ missed_plan_update' = FALSE
            /\ last_command_output' = last_command_output
    /\ UNCHANGED <<osName, goal, continue_mode, workdir, turns, context_file,
                   fs, response, saved_files, command_to_run, cmdIdx, calls,
                   seed_calls, matches, blockIdx, lastExec>>
    /\ UNCHANGED buildVars

\* the head of the for loop up to the backend call: the loop ends when the
\* budget is used up; otherwise the plan and the context file are read and
\* the prompt is assembled, which consumes the alert flag and the pending
\* command output
BeginTurn ==
    /\ pc = "loop"
    /\ IF LoopFinished(turn, turns)
       THEN /\ pc' = "exhausted"
            /\ UNCHANGED <<turn, prompt, missed_plan_update,
                           last_command_output>>
       ELSE IF PlanUnreadable(fs)
       THEN /\ pc' = "crashed"
            /\ turn' = turn + 1
            /\ UNCHANGED <<prompt, missed_plan_update, last_command_output>>
       ELSE /\ pc' = "generate"
            /\ turn' = turn + 1
            /\ \E context_exists \in BOOLEAN :
                  prompt' =
                      [built |-> TRUE,
                       plan |-> read_plan(fs),
                       context |-> IF context_file /\ context_exists
                                   THEN ContextText ELSE <<>>,
                       alert |-> missed_plan_update,
                       cmdout |-> last_command_output]
            /\ missed_plan_update' = FALSE
            /\ last_command_output' = <<>>
    /\ UNCHANGED <<osName, goal, continue_mode, workdir, turns, context_file,
                   fs, response, saved_files, command_to_run, cmdIdx, calls,
                   seed_calls, matches, blockIdx, lastExec>>
    /\ UNCHANGED buildVars

\* mutant: the files of the response not written by parse_response
Respond_FilesNotWritten ==
    /\ pc = "generate"
    /\ \E resp \in AgentResponses :
          LET r == parse_response(osName, fs, resp)
          IN  /\ response' = resp
              /\ fs' = fs
              /\ saved_files' = r.saved_files
              /\ command_to_run' = r.commands
              /\ missed_plan_update' =
                    IF ~PlanUpdated(r.saved_files) THEN TRUE
                    ELSE missed_plan_update
    /\ calls' = calls + 1
    /\ cmdIdx' = 1
    /\ lastExec' = NoExec
    /\ prompt' = NoPrompt
    /\ pc' = "commands"
    /\ UNCHANGED <<osName, goal, continue_mode, workdir, turns, context_file,
                   turn, last_command_output, seed_calls, matches, blockIdx>>
    /\ UNCHANGED buildVars

\* the backend answers and parse_response applies the response
Respond ==
    /\ pc = "generate"
    /\ \E resp \in AgentResponses :
          LET r == parse_response(osName, fs, resp)
          IN  /\ response' = resp
              /\ fs' = r.fs
              /\ saved_files' = r.saved_files
              /\ command_to_run' = r.commands
              /\ missed_plan_update' =
                    IF ~PlanUpdated(r.saved_files) THEN TRUE
                    ELSE missed_plan_update
    /\ calls' = calls + 1
    /\ cmdIdx' = 1
    /\ lastExec' = NoExec
    /\ prompt' = NoPrompt
    /\ pc' = "commands"
    /\ UNCHANGED <<osName, goal, continue_mode, workdir, turns, context_file,
                   turn, last_command_output, seed_calls, matches, blockIdx>>
    /\ UNCHANGED buildVars

\* one iteration of the loop over command_to_run
ExecCommand ==
    /\ pc = "commands"
    /\ cmdIdx <= Len(command_to_run)
    /\ LET cmd == StripText(command_to_run[cmdIdx])
       IN  IF cmd = <<>>
           THEN /\ cmdIdx' = cmdIdx + 1
                /\ UNCHANGED <<fs, pc, last_command_output, lastExec>>
           ELSE \E x \in Interactions :
                   LET e == execute(osName, fs, cmd, x.tty, x.answer, x.r)
                   IN  /\ fs' = e.fs
                       /\ lastExec' =
                             [called |-> TRUE, cmd |-> cmd,
                              command |-> e.command,
                              cleaned |-> e.cleaned, bg |-> e.bg,
                              tty |-> x.tty,
                              answer |-> IF e.asked THEN x.answer ELSE "",
                              asked |-> e.asked,
                              started |-> e.started, out |-> e.out]
                       /\ IF e.out = Raised
                          THEN /\ pc' = "crashed"
                               /\ UNCHANGED <<last_command_output, cmdIdx>>
                          ELSE /\ last_command_output' =
                                     Append(last_command_output,
                                            [cmd |-> cmd, out |-> e.out])
                               /\ cmdIdx' = cmdIdx + 1
                               /\ pc' = pc
    /\ UNCHANGED <<osName, goal, continue_mode, workdir, turns, context_file,
                   turn, missed_plan_update, prompt, response,
                   saved_files, command_to_run, calls, seed_calls, matches,
                   blockIdx>>
    /\ UNCHANGED buildVars

\* mutant: the completion check made before the commands are handled
EndTurn_BeforeCommands ==
    /\ pc = "commands"
    /\ pc' = IF PlanUnreadable(fs) THEN "crashed"
             ELSE IF HasTerminationMarker(read_plan(fs)) THEN "done"
             ELSE "loop"
    /\ lastExec' = NoExec
    /\ UNCHANGED <<osName, goal, continue_mode, workdir, turns, context_file,
                   fs, turn, missed_plan_update, last_command_output, prompt,
                   response, saved_files, command_to_run, cmdIdx, calls, seed_calls,
                   matches, blockIdx>>
    /\ UNCHANGED buildVars

\* the completion check that ends a turn; read_plan raises when the plan
\* path is a directory.  The response stays in its variable until the next
\* backend call replaces it.
EndTurn ==
    /\ pc = "commands"
    /\ cmdIdx > Len(command_to_run)
    /\ pc' = IF PlanUnreadable(fs) THEN "crashed"
             ELSE IF HasTerminationMarker(read_plan(fs)) THEN "done"
             ELSE "loop"
    /\ lastExec' = NoExec
    /\ UNCHANGED <<osName, goal, continue_mode, workdir, turns, context_file,
                   fs, turn, missed_plan_update, last_command_output, prompt,
                   response, saved_files, command_to_run, cmdIdx, calls, seed_calls,
                   matches, blockIdx>>
    /\ UNCHANGED buildVars

Next ==
    \/ Start
    \/ Seed
    \/ BackendFails
    \/ BeginTurn
    \/ Respond
    \/ ExecCommand
    \/ EndTurn

Spec == Init /\ [][Next]_vars

-----------------------------------------------------------------------------
(* The executor specification: one call of CommandExecutor.execute, on a   *)
(* command that is passed as it is.                                        *)

\* the lines a command of the executor specification is made of
CommandLines ==
    {"# background", "  # BG  ", "# detach", "", "sleep 100", "ls -la"}

ExecInputs == SeqsUpTo(CommandLines, MaxLines)

\* a workspace whose notes file holds a line already
NotesFs == [PlanFs EXCEPT ![NOTES_FILE] = File(<<"earlier note">>)]

\* a workspace where the path of the notes file is a directory
NotesDirFs == [EmptyFs EXCEPT ![NOTES_FILE] = Dir]

ExecWorkspaces == {EmptyFs, PlanFs, NotesFs, NotesDirFs}

InitExec ==
    /\ osName \in {"posix", "nt"}
    /\ fs \in ExecWorkspaces
    /\ command_to_run \in {<<c>> : c \in ExecInputs}
    /\ cmdIdx = 1
    /\ pc = "exec"
    /\ goal = FALSE
    /\ continue_mode = FALSE
    /\ workdir = "none"
    /\ turns = 0
    /\ context_file = FALSE
    /\ turn = 0
    /\ missed_plan_update = FALSE
    /\ last_command_output = <<>>
    /\ prompt = NoPrompt
    /\ response = <<>>
    /\ saved_files = <<>>
    /\ calls = 0
    /\ seed_calls = 0
    /\ matches = <<>>
    /\ blockIdx = 0
    /\ lastExec = NoExec
    /\ BuildIdle

\* executor.execute(command), with what happens around it
ExecCall ==
    /\ pc = "exec"
    /\ \E x \in Interactions :
          LET cmd == command_to_run[cmdIdx]
              e == execute(osName, fs, cmd, x.tty, x.answer, x.r)
          IN  /\ fs' = e.fs
              /\ lastExec' =
                    [called |-> TRUE, cmd |-> cmd, command |-> e.command,
                     cleaned |-> e.cleaned, bg |-> e.bg, tty |-> x.tty,
                     answer |-> IF e.asked THEN x.answer ELSE "",
                     asked |-> e.asked, started |-> e.started, out |-> e.out]
    /\ cmdIdx' = cmdIdx + 1
    /\ pc' = IF lastExec'.out = Raised THEN "crashed" ELSE "execd"
    /\ UNCHANGED <<osName, goal, continue_mode, workdir, turns, context_file,
                   turn, missed_plan_update, last_command_output, prompt,
                   response, saved_files, command_to_run, calls, seed_calls,
                   matches, blockIdx>>
    /\ UNCHANGED buildVars

NextExec == ExecCall

SpecExec == InitExec /\ [][NextExec]_vars

-----------------------------------------------------------------------------
(* ollama_dual_model_build.py: save_code_blocks and collaborative_build.   *)
(* A path is [abs, parts]; the workspace of this part maps the locations   *)
(* the paths of the model resolve to.                                      *)

GENERATED_DIR == [abs |-> FALSE, parts |-> <<"generated">>]

\* the directory --tests-dir names in the model
TestsPath == [abs |-> FALSE, parts |-> <<"tests">>]

\* the tokens of the model that [\w./-]+ matches whole
BuildNames ==
    {"script.py", "pkg/mod.py", "pkg", "../evil.py", "/etc/passwd",
     "python", "test_a.py"}

IsFenceName(t) == t \in BuildNames

\* the tokens of the model that \w+ matches whole
IsWord(t) == t \in {"python", "pkg"}

\* Path(fname): the segments of a name
NameParts(fname) ==
    CASE fname = "pkg/mod.py" -> [abs |-> FALSE, parts |-> <<"pkg", "mod.py">>]
      [] fname = "../evil.py" -> [abs |-> FALSE, parts |-> <<"..", "evil.py">>]
      [] fname = "/etc/passwd" -> [abs |-> TRUE, parts |-> <<"etc", "passwd">>]
      [] OTHER -> [abs |-> FALSE, parts |-> <<fname>>]

\* out_dir / fname: an absolute right operand replaces the left one, and
\* ".." segments are kept
JoinPath(dir, fname) ==
    LET n == NameParts(fname)
    IN  IF n.abs THEN n
        ELSE [abs |-> dir.abs, parts |-> dir.parts \o n.parts]

\* path.parent
PathParent(p) ==
    [abs |-> p.abs, parts |-> SubSeq(p.parts, 1, Len(p.parts) - 1)]

RECURSIVE Collapse(_, _, _)
Collapse(abs, parts, acc) ==
    IF parts = <<>> THEN acc
    ELSE IF Head(parts) # ".."
    THEN Collapse(abs, Tail(parts), Append(acc, Head(parts)))
    ELSE IF acc # <<>> /\ acc[Len(acc)] # ".."
    THEN Collapse(abs, Tail(parts), SubSeq(acc, 1, Len(acc) - 1))
    ELSE IF abs THEN Collapse(abs, Tail(parts), acc)
    ELSE Collapse(abs, Tail(parts), Append(acc, ".."))

\* the location the host opens for a path: each ".." segment leaves the
\* directory before it (relative paths start at the working directory)
Resolve(p) == [abs |-> p.abs, parts |-> Collapse(p.abs, p.parts, <<>>)]

\* location r lies inside directory dir
Inside(dir, p) ==
    LET r == Resolve(p)
        d == Resolve(dir)
    IN  /\ r.abs = d.abs
        /\ Len(r.parts) > Len(d.parts)
        /\ SubSeq(r.parts, 1, Len(d.parts)) = d.parts

\* the directories a location lies in, outermost first, and the location
Prefixes(r) ==
    {[abs |-> r.abs, parts |-> SubSeq(r.parts, 1, k)] : k \in 1..Len(r.parts)}

BuildLocs ==
    UNION {Prefixes(Resolve(JoinPath(d, n))) :
             d \in {GENERATED_DIR, TestsPath}, n \in BuildNames}

BuildEmptyFs == [l \in BuildLocs |-> Absent]

\* p.mkdir(parents=True, exist_ok=True): raises when the location or a
\* directory it lies in is a regular file
MkDirs(f, p) ==
    LET ds == Prefixes(Resolve(p))
    IN  IF \E d \in ds : f[d].kind = "file"
        THEN [fs |-> f, ok |-> FALSE]
        ELSE [fs |-> [l \in DOMAIN f |-> IF l \in ds THEN Dir ELSE f[l]],
              ok |-> TRUE]

\* the match of FENCE_RE that opens at fence line a.  After the backticks
\* come \s*(\w+)?\s+([\w./-]+)\s*\n : a tag and a name on the fence line, or
\* a name alone after whitespace, or, \s+ running over the line end, a
\* name that stands alone on the line below the fence.  first is the line
\* the body starts at.  (No text of the model has a blank line below a
\* fence.)
MatchAt(lines, a) ==
    LET h == lines[a].header
        toks == Tokens(h)
        below == /\ a < Len(lines)
                 /\ ~lines[a + 1].fence
                 /\ IsFenceName(lines[a + 1].text)
    IN  IF Len(toks) = 2 /\ IsWord(toks[1]) /\ IsFenceName(toks[2])
        THEN [ok |-> TRUE, fname |-> toks[2], first |-> a + 1]
        ELSE IF (toks = <<>> \/ (Len(toks) = 1 /\ IsWord(toks[1]))) /\ below
        THEN [ok |-> TRUE, fname |-> lines[a + 1].text, first |-> a + 2]
        ELSE IF Len(toks) = 1 /\ Head(h) = " " /\ IsFenceName(toks[1])
        THEN [ok |-> TRUE, fname |-> toks[1], first |-> a + 1]
        ELSE [ok |-> FALSE, fname |-> "", first |-> 0]

\* FENCE_RE.findall(text): the matches left to right, not overlapping; a
\* match closes at the next three backticks after its first line, and the
\* scan resumes after them.  Backticks that open no match are passed over.
RECURSIVE FenceFindAllFrom(_, _)
FenceFindAllFrom(lines, i) ==
    LET a == NextFence(lines, i)
        m == MatchAt(lines, a)
        b == IF m.ok THEN NextFence(lines, m.first) ELSE 0
    IN  IF a = 0 THEN <<>>
        ELSE IF b = 0 THEN FenceFindAllFrom(lines, a + 1)
        ELSE <<[fname |-> m.fname,
                body |-> [k \in 1..(b - m.first) |-> lines[m.first + k - 1].text]]>>
             \o FenceFindAllFrom(lines, b + 1)

\* one iteration of the loop of save_code_blocks; st = [fs, written, ok],
\* ok telling that nothing raised so far
SaveBlock(st, dir, m) ==
    LET path == JoinPath(dir, m.fname)
        mk == MkDirs(st.fs, PathParent(path))
    IN  IF ~mk.ok THEN [st EXCEPT !.ok = FALSE]
        ELSE IF mk.fs[Resolve(path)].kind = "dir"
        THEN [st EXCEPT !.fs = mk.fs, !.ok = FALSE]
        ELSE [st EXCEPT !.fs = [mk.fs EXCEPT ![Resolve(path)] = File(m.body)],
                        !.written = Append(@, path)]

RECURSIVE SaveBlocks(_, _, _)
SaveBlocks(st, dir, ms) ==
    IF ms = <<>> \/ ~st.ok THEN st
    ELSE SaveBlocks(SaveBlock(st, dir, Head(ms)), dir, Tail(ms))

\* save_code_blocks(text, out_dir) on workspace f.  findall raises on a
\* text that is no str.
save_code_blocks(f, text, out_dir) ==
    LET mk == MkDirs(f, out_dir)
    IN  IF ~mk.ok \/ text.type # "str"
        THEN [fs |-> mk.fs, written |-> <<>>, ok |-> FALSE]
        ELSE SaveBlocks([fs |-> mk.fs, written |-> <<>>, ok |-> TRUE],
                        out_dir, FenceFindAllFrom(text.lines, 1))

\* any(tests_dir.glob("*.py"))
HasPyFiles(f, dir) ==
    \E l \in DOMAIN f :
        /\ f[l].kind # "absent"
        /\ l.parts # <<>>
        /\ PathParent(l) = Resolve(dir)
        /\ l.parts[Len(l.parts)] \in {"script.py", "test_a.py"}

\* stream_generate_collect(...) if stream else full_generate(...): generate
\* holds a yield, so full_generate returns the generator object of the
\* call and not the text of the reply
Reply(streaming, lines) ==
    IF streaming THEN Str(lines) ELSE GeneratorObject

\* mutant: the tests run after a reply that wrote nothing
RunsTests_AnyReply(dir, w) == dir # NoTestsDir

\* if tests_dir and written
RunsTests(dir, w) == dir # NoTestsDir /\ w # <<>>

\* the inputs of collaborative_build
INITIAL_PROMPT == Str(<<"build a counter">>)

PytestFailed == Str(<<"1 failed">>)

PytestPassed == Str(<<"1 passed">>)

ArchitectReplies == {<<"plan: write script.py">>, <<"refine: handle errors">>}

PyTag(name) == <<"python", " ", name>>

CoderReplies ==
    {<<TextLine("nothing to change")>>,
     Flatten(<<Chunk(PyTag("script.py"), Code, TRUE)>>),
     Flatten(<<Chunk(PyTag("../evil.py"), Code, TRUE)>>),
     Flatten(<<Chunk(PyTag("/etc/passwd"), Code, TRUE)>>),
     Flatten(<<Chunk(PyTag("pkg/mod.py"), Code, TRUE),
               Chunk(PyTag("pkg"), Code, TRUE)>>),
     Flatten(<<Chunk(<<"python">>, <<"script.py", "print(x)">>, TRUE)>>),
     Flatten(<<Chunk(<<"script.py">>, Code, TRUE)>>)}

TestReplies ==
    {<<TextLine("no tests needed")>>,
     Flatten(<<Chunk(PyTag("test_a.py"), <<"assert x">>, TRUE)>>)}

BuildTestsFs ==
    [BuildEmptyFs EXCEPT ![TestsPath] = Dir,
                         ![JoinPath(TestsPath, "test_a.py")] = File(<<"assert x">>)]

Entry(who, text) == [who |-> who, text |-> text]

Sent(to, kind, quoted) == [to |-> to, kind |-> kind, quoted |-> quoted]

InitBuild ==
    /\ turns \in 0..MaxTurns
    /\ stream \in BOOLEAN
    /\ tests_dir \in {NoTestsDir, TestsPath}
    /\ fs \in {BuildEmptyFs, BuildTestsFs}
    /\ pc = "start"
    /\ idx = 0
    /\ history = <<>>
    /\ last_resp = Str(<<>>)
    /\ coder_reply = Str(<<>>)
    /\ written = <<>>
    /\ test_result = NoTest
    /\ sent = <<>>
    /\ osName = "posix"
    /\ goal = FALSE
    /\ continue_mode = FALSE
    /\ workdir = "none"
    /\ context_file = FALSE
    /\ turn = 0
    /\ missed_plan_update = FALSE
    /\ last_command_output = <<>>
    /\ prompt = NoPrompt
    /\ response = <<>>
    /\ saved_files = <<>>
    /\ command_to_run = <<>>
    /\ cmdIdx = 0
    /\ calls = 0
    /\ seed_calls = 0
    /\ matches = <<>>
    /\ blockIdx = 0
    /\ lastExec = NoExec

\* the variables of the other functions
agentVars ==
    <<osName, goal, continue_mode, workdir, context_file, turn,
      missed_plan_update, last_command_output, prompt, response, saved_files,
      command_to_run, cmdIdx, calls, seed_calls, matches, blockIdx, lastExec>>

\* if tests_dir and not any(tests_dir.glob("*.py"))
NeedsTests == tests_dir # NoTestsDir /\ ~HasPyFiles(fs, tests_dir)

\* generate_tests, called from collaborative_build
GenerateTests ==
    /\ pc = "start"
    /\ NeedsTests
    /\ \E t \in TestReplies :
          LET mk == MkDirs(fs, tests_dir)
              reply == Reply(stream, t)
              s == save_code_blocks(mk.fs, reply, tests_dir)
          IN  /\ sent' = Append(sent, Sent("model_b", "tests", INITIAL_PROMPT))
              /\ fs' = s.fs
              /\ IF mk.ok /\ s.ok
                 THEN /\ history' = Append(history, Entry("Generated tests", reply))
                      /\ pc' = "round0"
                 ELSE /\ history' = history
                      /\ pc' = "crashed"
    /\ UNCHANGED <<turns, stream, tests_dir, idx, last_resp, coder_reply,
                   written, test_result>>
    /\ UNCHANGED agentVars

\* round 0: the architect answers the initial prompt; then the loop starts
ArchitectKickoff ==
    /\ pc = "round0" \/ (pc = "start" /\ ~NeedsTests)
    /\ \E a \in ArchitectReplies :
          LET lead_reply == Reply(stream, a)
          IN  /\ sent' = Append(sent, Sent("model_a", "initial", INITIAL_PROMPT))
              /\ history' = Append(history, Entry("model_a", lead_reply))
              /\ last_resp' = lead_reply
    /\ idx' = 0
    /\ pc' = IF turns > 0 THEN "coder" ELSE "done"
    /\ UNCHANGED <<turns, stream, tests_dir, fs, coder_reply, written,
                   test_result>>
    /\ UNCHANGED agentVars

\* the coder turn of round idx.  The prompt is built with +, which raises
\* when last_resp is no str.
CoderTurn ==
    /\ pc = "coder"
    /\ IF last_resp.type # "str"
       THEN /\ pc' = "crashed"
            /\ UNCHANGED <<fs, history, coder_reply, written, test_result, sent>>
       ELSE \E c \in CoderReplies :
              LET reply == Reply(stream, c)
                  s == save_code_blocks(fs, reply, GENERATED_DIR)
              IN  /\ sent' = Append(sent, Sent("model_b", "code", last_resp))
                  /\ coder_reply' = reply
                  /\ history' = Append(history, Entry("model_b", reply))
                  /\ fs' = s.fs
                  /\ written' = s.written
                  /\ test_result' = NoTest
                  /\ pc' = IF ~s.ok THEN "crashed"
                           ELSE IF RunsTests(tests_dir, s.written) THEN "tests"
                           ELSE "architect"
    /\ UNCHANGED <<turns, stream, tests_dir, idx, last_resp>>
    /\ UNCHANGED agentVars

\* mutant: the last-round check made after a failed test run as well
TestPhase_FinalAfterFailure ==
    /\ pc = "tests"
    /\ \E passed \in BOOLEAN :
          LET output == IF passed THEN PytestPassed ELSE PytestFailed
          IN  /\ test_result' = [ran |-> TRUE, passed |-> passed, output |-> output]
              /\ IF ~passed
                 THEN /\ last_resp' = output
                      /\ IF idx + 1 < turns
                         THEN idx' = idx + 1 /\ pc' = "coder"
                         ELSE idx' = idx /\ pc' = "final"
                 ELSE /\ UNCHANGED <<last_resp, idx>>
                      /\ pc' = "architect"
    /\ UNCHANGED <<turns, stream, tests_dir, fs, history, coder_reply, written,
                   sent>>
    /\ UNCHANGED agentVars

\* the optional test phase: run_pytest, and on failure the architect turn
\* is left out (continue)
TestPhase ==
    /\ pc = "tests"
    /\ \E passed \in BOOLEAN :
          LET output == IF passed THEN PytestPassed ELSE PytestFailed
          IN  /\ test_result' = [ran |-> TRUE, passed |-> passed, output |-> output]
              /\ IF ~passed
                 THEN /\ last_resp' = output
                      /\ idx' = idx + 1
                      /\ pc' = IF idx + 1 < turns THEN "coder" ELSE "done"
                 ELSE /\ UNCHANGED <<last_resp, idx>>
                      /\ pc' = "architect"
    /\ UNCHANGED <<turns, stream, tests_dir, fs, history, coder_reply, written,
                   sent>>
    /\ UNCHANGED agentVars

\* the architect turn of round idx
ArchitectTurn ==
    /\ pc = "architect"
    /\ \E a \in ArchitectReplies :
          LET arch_reply == Reply(stream, a)
          IN  /\ sent' = Append(sent, Sent("model_a", "review", coder_reply))
              /\ history' = Append(history, Entry("model_a", arch_reply))
              /\ last_resp' = arch_reply
    /\ IF idx = turns - 1
       THEN /\ pc' = "final"
            /\ idx' = idx
       ELSE /\ pc' = "coder"
            /\ idx' = idx + 1
    /\ UNCHANGED <<turns, stream, tests_dir, fs, coder_reply, written,
                   test_result>>
    /\ UNCHANGED agentVars

\* the last-round check: finalize_collaboration
Finalize ==
    /\ pc = "final"
    /\ \E a \in ArchitectReplies :
          /\ sent' = Append(sent, Sent("model_a", "final", history))
          /\ history' = Append(history, Entry("model_a (FINAL)", Reply(stream, a)))
    /\ pc' = "done"
    /\ UNCHANGED <<turns, stream, tests_dir, fs, idx, last_resp, coder_reply,
                   written, test_result>>
    /\ UNCHANGED agentVars

\* requests.post or raise_for_status raises in a streamed call: nothing
\* catches it
BuildBackendFails ==
    /\ stream
    /\ pc \in {"start", "round0", "coder", "architect", "final"}
    /\ pc' = "crashed"
    /\ UNCHANGED <<turns, fs>>
    /\ UNCHANGED buildVars
    /\ UNCHANGED agentVars

NextBuild ==
    \/ GenerateTests
    \/ ArchitectKickoff
    \/ CoderTurn
    \/ TestPhase
    \/ ArchitectTurn
    \/ Finalize
    \/ BuildBackendFails

SpecBuild == InitBuild /\ [][NextBuild]_vars

-----------------------------------------------------------------------------
(* Properties of the turn loop (Spec).                                     *)

\* the plan file of workspace f holds a termination marker line
PlanHasMarker(f) ==
    /\ f["task_plan.md"].kind = "file"
    /\ \E i \in 1..Len(f["task_plan.md"].text) :
          f["task_plan.md"].text[i] \in
              {"Status: Complete", "- [x] Phase 4: Review"}

\* C1: the prompt of every turn after the first carries the corrective
\* notice if and only if "task_plan.md" was not among the saved paths that
\* parse_response returned for the turn before.
C1_AlertIffPlanNotSaved ==
    (pc = "generate" /\ turn >= 2) =>
        (prompt.alert <=>
            (\A i \in 1..Len(saved_files) : saved_files[i] # "task_plan.md"))

\* a second prompt that carries the notice although the turn before saved
\* a file, which was not the plan
C1_Witness ==
    /\ pc = "generate"
    /\ turn >= 2
    /\ prompt.alert
    /\ saved_files # <<>>

\* C2: once a turn has ended with a termination marker in the plan file the
\* run is over: the loop is entered again, and a further backend call is
\* made, only from a plan without a marker, and a run that has stopped on
\* the marker has made one backend call for each turn it ran.
C2_MarkerStopsLoop ==
    /\ ((pc = "loop" /\ turn >= 1) \/ (pc = "generate" /\ turn >= 2))
          => ~PlanHasMarker(fs)
    /\ pc = "done" => (PlanHasMarker(fs) /\ calls = turn)

\* a run that stopped on the marker before its budget was used up
C2_Witness ==
    /\ pc = "done"
    /\ turn < turns
    /\ PlanHasMarker(fs)

C5_ProcessOnlyAfterApproval ==
    lastExec.called =>
        /\ lastExec.started # "none" =>
              (lastExec.tty /\ lastExec.asked
               /\ lastExec.answer \in {"y", " YES "})
        /\ (lastExec.asked /\ lastExec.answer \in {"n", "EOF", "INT"}) =>
              /\ lastExec.started = "none"
              /\ lastExec.out.kind \in
                    {"User denied command execution.",
                     "Command execution skipped by user."}

\* the second command of a turn refused after the first one was approved
\* and started
C5_Witness ==
    /\ lastExec.called
    /\ Len(last_command_output) = 2
    /\ last_command_output[1].out.kind = "Started background process (pid N)."
    /\ lastExec.asked
    /\ lastExec.answer = "n"
    /\ lastExec.started = "none"

\* C6: without a terminal on stdin execute does not call input(), starts
\* nothing and returns a skipped result.
C6_NoTtySkips ==
    (lastExec.called /\ ~lastExec.tty) =>
        /\ ~lastExec.asked
        /\ lastExec.started = "none"
        /\ lastExec.out.kind \in
              {"Command execution skipped (no interactive input).",
               "Command execution skipped (empty command)."}
        /\ lastExec.cmd = <<"ls -la">> =>
              lastExec.out.kind =
                  "Command execution skipped (no interactive input)."

\* ls -la skipped because stdin is no terminal
C6_Witness ==
    /\ lastExec.called
    /\ ~lastExec.tty
    /\ lastExec.cmd = <<"ls -la">>
    /\ lastExec.out.kind = "Command execution skipped (no interactive input)."

\* C10 as stated: a response whose only block is headed `markdown` and
\* holds a plan with the headings Goal, Phases and Status saves
\* task_plan.md, so the turn is not flagged stale.
C10_AsStated ==
    (pc = "commands"
     /\ response = Flatten(<<Chunk(<<"markdown">>, PlanOpen, TRUE)>>)) =>
        /\ \E i \in 1..Len(saved_files) : saved_files[i] = "task_plan.md"
        /\ ~missed_plan_update

\* C10: the code has no rescue.  A response whose only block is headed
\* `markdown` and holds a plan with the headings Goal, Phases and Status
\* saves nothing, and the turn is flagged stale.
C10_BarePlanBlockDropped ==
    (pc = "commands"
     /\ response = Flatten(<<Chunk(<<"markdown">>, PlanOpen, TRUE)>>)) =>
        /\ saved_files = <<>>
        /\ command_to_run = <<>>
        /\ missed_plan_update

\* such a response in a workspace that had no plan: there is none after it
C10_Witness ==
    /\ pc = "commands"
    /\ response = Flatten(<<Chunk(<<"markdown">>, PlanOpen, TRUE)>>)
    /\ fs["task_plan.md"].kind = "absent"
    /\ missed_plan_update

-----------------------------------------------------------------------------
(* Properties of the parser (SpecParse).                                   *)

\* the step is an iteration of the loop over the matches
BlockStep == pc = "blocks" /\ blockIdx <= Len(matches) /\ blockIdx' = blockIdx + 1

\* the tokens of the header of match b; the target is the last of them
HeaderTokens(b) == SelectSeq(b.header, LAMBDA x : x # " ")

Target(b) == HeaderTokens(b)[Len(HeaderTokens(b))]

UnsafeTargets ==
    {"../evil.py", "out/../evil.py", "/etc/passwd", "/ws/task_plan.md"}

\* match b names a target that holds ".." or starts with "/"
UnsafeBlock(b) ==
    /\ HeaderTokens(b) # <<>>
    /\ Target(b) \in UnsafeTargets

\* match b is headed `<lang> <path>` with a safe path
TwoTokenBlock(b) ==
    /\ Len(HeaderTokens(b)) = 2
    /\ Target(b) \notin UnsafeTargets

\* match b is headed by one of the command tags alone
CommandBlock(b) == HeaderTokens(b) \in {<<"bash">>, <<"sh">>, <<"shell">>}

\* match b is headed by one token that is no command tag and not path-like
BareTagBlock(b) == HeaderTokens(b) \in {<<"python">>, <<"markdown">>, <<"Bash">>}

\* the last match the loop has handled
Handled == matches[blockIdx - 1]

AfterBlock == pc \in {"blocks", "parsed"} /\ blockIdx >= 2

WriteRaises(f, p) ==
    \/ f[p].kind = "dir"
    \/ p = "dir/file.py" /\ f["dir"].kind = "file"
    \/ p = "task_plan.md/x.py" /\ f["task_plan.md"].kind = "file"

\* C7 as stated: every block headed `<lang> <path>` with a safe path puts
\* its body, unchanged, into the file of that path and lists the path once.
C7_AsStated ==
    [][(BlockStep /\ TwoTokenBlock(matches[blockIdx])) =>
          /\ fs'[Canon(Target(matches[blockIdx]))] =
                [kind |-> "file", text |-> matches[blockIdx].content]
          /\ saved_files' =
                Append(saved_files, PathStr(osName, Target(matches[blockIdx])))
      ]_vars

\* C7: a block headed `<lang> <path>` with a safe path, whatever the spaces
\* around the tokens, puts its body, unchanged, into the file of that path,
\* changes no other file and lists the path once, unless the write raises
\* (the path is a directory or its parent a regular file): then no file
\* changes and nothing is listed.  It never adds a command.
C7_TwoTokenHeaderWritesFile ==
    [][(BlockStep /\ TwoTokenBlock(matches[blockIdx])) =>
          LET b == matches[blockIdx]
              p == Canon(Target(b))
          IN  /\ command_to_run' = command_to_run
              /\ \A q \in FsPaths \ {p, Parent(p)} : fs'[q] = fs[q]
              /\ IF WriteRaises(fs, p)
                 THEN /\ fs'[p] = fs[p]
                      /\ saved_files' = saved_files
                 ELSE /\ fs'[p] = [kind |-> "file", text |-> b.content]
                      /\ saved_files' =
                            Append(saved_files, PathStr(osName, Target(b)))
      ]_vars

\* the block headed `python  dir/file.py ` written with its blank lines
C7_Witness ==
    /\ AfterBlock
    /\ Handled.header = <<"python", " ", " ", "dir/file.py", " ">>
    /\ fs["dir/file.py"] = [kind |-> "file", text |-> <<"", "ls -la", "   ">>]
    /\ Len(saved_files) = 1

\* C8: a block headed by bash, sh or shell alone adds its stripped body to
\* the commands and changes no file and no saved path; a block headed Bash
\* adds no command.
C8_CommandTagIsCommand ==
    [][BlockStep =>
          LET b == matches[blockIdx]
          IN  /\ CommandBlock(b) =>
                    /\ Len(command_to_run') = Len(command_to_run) + 1
                    /\ SubSeq(command_to_run', 1, Len(command_to_run))
                          = command_to_run
                    /\ command_to_run'[Len(command_to_run')] =
                          StripText(b.content)
                    /\ b.content = <<"", "ls -la", "   ">> =>
                          command_to_run'[Len(command_to_run')] = <<"ls -la">>
                    /\ fs' = fs
                    /\ saved_files' = saved_files
              /\ HeaderTokens(b) = <<"Bash">> =>
                    command_to_run' = command_to_run
      ]_vars

\* the block headed bash whose body has blank lines around ls -la
C8_Witness ==
    /\ AfterBlock
    /\ Handled.header = <<"bash">>
    /\ Handled.content = <<"", "ls -la", "   ">>
    /\ command_to_run # <<>>
    /\ command_to_run[Len(command_to_run)] = <<"ls -la">>
    /\ saved_files = <<>>

\* C9: a block headed by one token that is no command tag and not
\* path-like changes no file, no saved path and no command.
C9_BareTagIgnored ==
    [][(BlockStep /\ BareTagBlock(matches[blockIdx])) =>
          /\ fs' = fs
          /\ saved_files' = saved_files
          /\ command_to_run' = command_to_run]_vars

\* the block of the test: headed markdown, a plan title and a Phases list
C9_Witness ==
    /\ AfterBlock
    /\ blockIdx > Len(matches)
    /\ Len(matches) = 1
    /\ Handled.header = <<"markdown">>
    /\ Handled.content = <<"# Task Plan: Fallback", "## Phases", "- [ ] P1">>
    /\ fs = EmptyFs
    /\ saved_files = <<>>
    /\ command_to_run = <<>>

\* the plan of PlanFs with its Status section replaced by body
PlanWithStatus(body) ==
    <<"# Task Plan: Demo", "## Goal", "Test the parser", "## Phases",
      "- [ ] Phase 1: Setup", "## Status">> \o body

\* C11 as stated: with a plan that has a Status section, a block headed
\* `<lang> task_plan.md#Status` puts its body in place of that section,
\* leaves the other sections as they were, lists task_plan.md in the saved
\* paths and creates no file named task_plan.md#Status.
C11_AsStated ==
    [][(BlockStep
        /\ HeaderTokens(matches[blockIdx]) = <<"markdown", "task_plan.md#Status">>
        /\ fs["task_plan.md"] = [kind |-> "file", text |-> PlanWithStatus(<<"In progress">>)]) =>
          /\ fs'["task_plan.md"] =
                [kind |-> "file",
                 text |-> PlanWithStatus(matches[blockIdx].content)]
          /\ saved_files' = Append(saved_files, "task_plan.md")
          /\ fs'["task_plan.md#Status"] = fs["task_plan.md#Status"]
      ]_vars

\* match b names a file that the safety test lets through
ListedBlock(b) ==
    /\ ~CommandBlock(b)
    /\ \/ Len(HeaderTokens(b)) >= 2
       \/ HeaderTokens(b) \in {<<"run.sh">>, <<"task_plan.md">>}
    /\ Target(b) \notin UnsafeTargets

\* the stripped bodies of the command blocks of bs, in their order
RECURSIVE CommandsOf(_)
CommandsOf(bs) ==
    IF bs = <<>> THEN <<>>
    ELSE (IF CommandBlock(Head(bs)) THEN <<StripText(Head(bs).content)>>
          ELSE <<>>) \o CommandsOf(Tail(bs))

\* the paths of the file blocks of bs, in their order
RECURSIVE PathsOf(_, _)
PathsOf(os, bs) ==
    IF bs = <<>> THEN <<>>
    ELSE (IF ListedBlock(Head(bs)) THEN <<PathStr(os, Target(Head(bs)))>>
          ELSE <<>>) \o PathsOf(os, Tail(bs))

\* no block of bs has a target whose write can raise or make a later write
\* raise
NoWriteClash(bs) ==
    \A k \in 1..Len(bs) :
        HeaderTokens(bs[k]) = <<>>
        \/ Target(bs[k]) \notin {"dir", "task_plan.md/x.py"}

\* the headers of the fence lines of a response, in their order
FenceHeaders(resp) ==
    LET fences == SelectSeq(resp, LAMBDA l : l.fence)
    IN  [k \in 1..Len(fences) |-> fences[k].header]

\* every fence of the response is closed: the fence lines come in pairs of
\* an opening line and a bare closing line
AllFencesClosed(resp) ==
    LET hs == FenceHeaders(resp)
    IN  /\ Len(hs) % 2 = 0
        /\ \A k \in 1..Len(hs) : k % 2 = 0 => hs[k] = <<>>

\* the number of opening fence lines headed by a command tag alone
CommandOpeners(resp) ==
    LET hs == FenceHeaders(resp)
    IN  Cardinality({k \in 1..Len(hs) :
            /\ k % 2 = 1
            /\ SelectSeq(hs[k], LAMBDA x : x # " ")
                  \in {<<"bash">>, <<"sh">>, <<"shell">>}})

\* C12: save_files_from_response returns the commands of the command
\* blocks in the order of the blocks, one for each block, and the saved
\* paths of the file blocks in the order of the blocks, one for each block
\* that was written; in a response whose fences are all closed no command
\* block is lost.
C12_ListsFollowBlockOrder ==
    pc = "parsed" =>
        /\ command_to_run = CommandsOf(matches)
        /\ NoWriteClash(matches) => saved_files = PathsOf(osName, matches)
        /\ AllFencesClosed(response) =>
              Len(command_to_run) = CommandOpeners(response)
        /\ Len(saved_files) + Len(command_to_run) <= Len(matches)

\* the response of the test: a plan block and a command block give one
\* saved path and one command
C12_Witness ==
    /\ pc = "parsed"
    /\ response = Flatten(<<Chunk(<<"markdown", " ", "task_plan.md">>, PlanOpen, TRUE),
                            Chunk(<<"sh">>, <<"ls -la">>, TRUE)>>)
    /\ saved_files = <<"task_plan.md">>
    /\ command_to_run = << <<"ls -la">> >>

-----------------------------------------------------------------------------
(* Properties of the executor (SpecExec).                                  *)

\* the lines that are a background marker once stripped and lower-cased
MarkerLines == {"# background", "  # BG  ", "# detach"}

\* the number of marker lines a command starts with
RECURSIVE LeadingMarkers(_)
LeadingMarkers(cmd) ==
    IF cmd # <<>> /\ Head(cmd) \in MarkerLines
    THEN 1 + LeadingMarkers(Tail(cmd))
    ELSE 0

\* C13 as stated: when the first line is a marker, background is true and
\* the cleaned command is the command without that one line; otherwise
\* background is false and the cleaned command is the command; both apart
\* from outer whitespace.
C13_AsStated ==
    lastExec.called =>
        IF lastExec.cmd # <<>> /\ Head(lastExec.cmd) \in MarkerLines
        THEN /\ lastExec.bg
             /\ lastExec.cleaned = StripText(Tail(lastExec.cmd))
        ELSE /\ ~lastExec.bg
             /\ lastExec.cleaned = StripText(lastExec.cmd)

\* C13: when the first line is a marker, background is true and the
\* cleaned command is the command without the marker lines it starts with,
\* all of them and not only the first; otherwise background is false and
\* the cleaned command is the command; both apart from outer whitespace.
C13_LeadingMarkersRemoved ==
    lastExec.called =>
        LET n == LeadingMarkers(lastExec.cmd)
        IN  /\ lastExec.bg <=> n >= 1
            /\ lastExec.cleaned =
                  StripText(SubSeq(lastExec.cmd, n + 1, Len(lastExec.cmd)))
            /\ lastExec.cmd = <<"# background", "sleep 100">> =>
                  lastExec.cleaned = <<"sleep 100">>

\* two marker lines before the command: both are gone
C13_Witness ==
    /\ lastExec.called
    /\ lastExec.cmd = <<"# background", "# detach", "sleep 100">>
    /\ lastExec.bg
    /\ lastExec.cleaned = <<"sleep 100">>

-----------------------------------------------------------------------------
(* Further properties of the parser (SpecParse).                           *)

\* C14: a file block applied once more to the workspace it has been applied
\* to, in the same response or in the next one, changes nothing: the file
\* holds the body once, as after the first write.
C14_WriteIdempotent ==
    (AfterBlock /\ ListedBlock(Handled)) =>
        /\ ProcessBlock(osName,
                        [fs |-> fs, saved_files |-> <<>>, commands |-> <<>>],
                        Handled).fs = fs
        /\ (/\ fs[Canon(Target(Handled))].kind = "file"
            /\ blockIdx >= 3
            /\ matches[1] = matches[2]
            /\ ~WriteRaises(fs, Canon(Target(Handled)))) =>
              fs[Canon(Target(Handled))].text = Handled.content

\* the same block twice in one response: the file holds the body once
C14_Witness ==
    /\ pc = "parsed"
    /\ Len(matches) = 2
    /\ matches[1] = matches[2]
    /\ Handled.header = <<" ", "python", " ", "script.py">>
    /\ fs["script.py"] = [kind |-> "file", text |-> <<"print(x)">>]
    /\ saved_files = <<"script.py", "script.py">>

-----------------------------------------------------------------------------
(* Further properties of the turn loop (Spec).                             *)

\* the arguments and the workspace make a configuration error
ConfigError ==
    \/ workdir = "notdir"
    \/ goal /\ ~continue_mode /\ fs["task_plan.md"].kind # "absent"
    \/ ~goal /\ ~continue_mode /\ fs["task_plan.md"].kind = "absent"

\* C15: from a configuration error (a goal with a plan on disk and no
\* continuation; no goal, no plan and no continuation; a workdir that is no
\* directory) run_agent goes straight to the failure exit: no backend call,
\* no turn, no change of the workspace, and nothing happens after the exit.
C15_ConfigErrorExits ==
    [][/\ (pc = "start" /\ ConfigError) =>
             /\ pc' = "exit1"
             /\ fs' = fs
             /\ calls' = 0
             /\ seed_calls' = 0
             /\ turn' = 0
       /\ pc # "exit1"]_vars

\* a goal given while a plan is on disk: failure exit, nothing called
C15_Witness ==
    /\ pc = "exit1"
    /\ goal
    /\ ~continue_mode
    /\ workdir # "notdir"
    /\ fs = PlanFs
    /\ calls = 0
    /\ seed_calls = 0

\* the step starts a run afresh: a goal, no plan, no continuation
FreshStart ==
    /\ pc = "start"
    /\ workdir # "notdir"
    /\ goal
    /\ ~continue_mode
    /\ fs["task_plan.md"].kind = "absent"

\* the step starts a run on the plan on disk, without a goal
ResumeStart ==
    /\ pc = "start"
    /\ workdir # "notdir"
    /\ ~goal
    /\ fs["task_plan.md"].kind = "file"

\* C16: a fresh start goes to the seeding call, which is made once, before
\* any turn, and leaves the workspace with the files of the seeding
\* response applied and no command run; a start without a goal on an
\* existing plan goes to the loop with no seeding call, and the prompt of
\* the first turn of a run that was not seeded carries the text of the plan
\* file as it is on disk.
C16_SeedOnceOrResume ==
    /\ [](/\ seed_calls <= 1
          /\ pc = "seed" => (seed_calls = 0 /\ turn = 0 /\ calls = 0)
          /\ ~goal => (seed_calls = 0 /\ pc # "seed")
          /\ (pc = "generate" /\ turn = 1 /\ seed_calls = 0
              /\ fs["task_plan.md"].kind = "file") =>
                prompt.plan = fs["task_plan.md"].text)
    /\ [][/\ FreshStart => (pc' = "seed" /\ fs' = fs)
          /\ ResumeStart => (pc' = "loop" /\ fs' = fs /\ seed_calls' = 0)
          /\ pc = "seed" =>
                /\ seed_calls' = 1
                /\ lastExec' = lastExec
                /\ last_command_output' = last_command_output
                /\ pc' = "loop" =>
                      fs' \in {fs,
                               [fs EXCEPT !["task_plan.md"] =
                                   [kind |-> "file", text |-> PlanOpen]],
                               [fs EXCEPT !["task_plan.md"] =
                                   [kind |-> "file", text |-> PlanDone]]}
                /\ pc' # "loop" => (pc' = "crashed" /\ fs' = fs)
         ]_vars

\* the first prompt of a seeded run carries the plan the seeding wrote
C16_Witness ==
    /\ pc = "generate"
    /\ turn = 1
    /\ seed_calls = 1
    /\ calls = 0
    /\ prompt.plan = PlanOpen

\* C17 as stated: whatever a block or a command comes to, the rest of the
\* response is handled and the turn ends as any other.  The commands of a
\* response are those of all its command blocks, also behind an unsafe
\* block or a write that raised; each command handled moves the loop on to
\* the next one, also when it was refused, timed out or could not be
\* started; the turn then ends in the next turn or in the completion
\* return; and the run crashes only by a backend call or on a plan path
\* that is a directory.
C17_AsStated ==
    [][/\ (pc = "generate" /\ pc' = "commands") =>
             command_to_run' = CommandsOf(FindAll(response'))
       /\ (pc = "commands" /\ cmdIdx <= Len(command_to_run)) =>
             /\ pc' = "commands"
             /\ cmdIdx' = cmdIdx + 1
             /\ StripText(command_to_run[cmdIdx]) # <<>> =>
                   /\ lastExec'.called
                   /\ Len(last_command_output') = Len(last_command_output) + 1
       /\ (pc = "commands" /\ cmdIdx > Len(command_to_run)
           /\ fs["task_plan.md"].kind # "dir") =>
             pc' \in {"loop", "done"}
       /\ pc' = "crashed" =>
             (pc \in {"seed", "generate"} \/ fs["task_plan.md"].kind = "dir")
      ]_vars

\* the strings a prompt is made of: the lines of the plan and of the
\* context file, the corrective notice and the results of the commands
PromptStrings(pr) ==
    {pr.plan[i] : i \in 1..Len(pr.plan)}
    \cup {pr.context[i] : i \in 1..Len(pr.context)}
    \cup (IF pr.alert THEN {"ALERT: You did not update task_plan.md"} ELSE {})
    \cup {pr.cmdout[i].out.kind : i \in 1..Len(pr.cmdout)}

\* the response of the turn that has ended held the block
\* `python task_plan.md/x.py`, whose write raised because task_plan.md is a
\* regular file
WriteFailedLastTurn ==
    /\ turn >= 1
    /\ response = Flatten(<<Chunk(<<"python", " ", "task_plan.md/x.py">>, Code, TRUE),
                            Chunk(<<"sh">>, <<"ls -la">>, TRUE)>>)
    /\ fs["task_plan.md"].kind = "file"
    /\ fs["task_plan.md/x.py"].kind = "absent"

\* C18 as stated: the prompt of the next turn carries the result of every
\* command of the turn before, denied and timed-out ones among them, and a
\* string for every write that raised.
C18_AsStated ==
    [][(pc = "loop" /\ pc' = "generate") =>
          /\ prompt'.cmdout = last_command_output
          /\ WriteFailedLastTurn =>
                "Failed to write to task_plan.md/x.py" \in PromptStrings(prompt')
      ]_vars

\* the commands of cs that the loop hands to execute: stripped, the empty
\* ones left out
HandledCommands(cs) ==
    SelectSeq([i \in 1..Len(cs) |-> StripText(cs[i])], LAMBDA c : c # <<>>)

\* C19: the prompt of a turn carries the results of the commands of the
\* turn before, one for each command handed to execute and in their order,
\* and of no earlier turn; the first prompt carries none; the pending
\* output is empty once a prompt has been built from it; and each entry is
\* the command with the result execute returned for it.
C19_CommandOutputConsumedOnce ==
    /\ pc = "generate" => last_command_output = <<>>
    /\ (pc = "generate" /\ turn = 1) => prompt.cmdout = <<>>
    /\ (pc = "generate" /\ turn >= 2) =>
          LET cmds == HandledCommands(command_to_run)
          IN  /\ Len(prompt.cmdout) = Len(cmds)
              /\ \A i \in 1..Len(cmds) : prompt.cmdout[i].cmd = cmds[i]
    /\ (pc = "commands" /\ lastExec.called) =>
          /\ last_command_output # <<>>
          /\ last_command_output[Len(last_command_output)] =
                [cmd |-> lastExec.cmd, out |-> lastExec.out]

\* the second prompt of a run whose first turn had two commands: it
\* carries the two results in the order of the commands
C19_Witness ==
    /\ pc = "generate"
    /\ turn = 2
    /\ Len(prompt.cmdout) = 2
    /\ prompt.cmdout[1].cmd = <<"# background", "sleep 100">>
    /\ prompt.cmdout[2].cmd = <<"rm task_plan.md">>

\* the response whose command block comes before its file block
RmThenPlan ==
    Flatten(<<Chunk(<<"sh">>, <<"rm task_plan.md">>, TRUE),
              Chunk(<<"markdown", " ", "task_plan.md">>, PlanDone, TRUE)>>)

\* the response whose file block comes before its command blocks
ScriptThenCommands ==
    Flatten(<<Chunk(<<"python", " ", "script.py">>, Code, TRUE),
              Chunk(<<"bash">>, <<"# background", "sleep 100">>, TRUE),
              Chunk(<<"sh">>, <<"rm task_plan.md">>, TRUE)>>)

\* the commands of the turn have all been handled
CommandsHandled == pc = "commands" /\ cmdIdx > Len(command_to_run)

\* C20 as stated: the blocks take effect in the order of the response.  The
\* plan block behind `rm task_plan.md` is written after the command has
\* run, so the plan is there, with the body of the block, when the turn's
\* commands are done; the script block before the commands is written
\* before they run.
C20_AsStated ==
    /\ (CommandsHandled /\ response = RmThenPlan
        /\ saved_files = <<"task_plan.md">>) =>
          fs["task_plan.md"] = [kind |-> "file", text |-> PlanDone]
    /\ (pc = "commands" /\ response = ScriptThenCommands /\ lastExec.called) =>
          fs["script.py"] = [kind |-> "file", text |-> Code]

\* C20: the file blocks of a response are all written, in their order,
\* before any of its commands is handled, and the commands are handled
\* afterwards in their order, wherever the blocks stand in the response.
\* The plan block behind `rm task_plan.md` is written before the command
\* runs, and a successful rm leaves no plan file; the script block before
\* the commands is written before they run; handling the commands changes
\* no saved path and no file of a block other than by what the process
\* does.
C20_FilesBeforeCommands ==
    /\ [](/\ (pc = "commands" /\ response = RmThenPlan /\ cmdIdx = 1
              /\ saved_files = <<"task_plan.md">>) =>
                /\ fs["task_plan.md"] = [kind |-> "file", text |-> PlanDone]
                /\ ~lastExec.called
          /\ (pc = "commands" /\ response = RmThenPlan /\ lastExec.called
              /\ lastExec.started = "fg" /\ lastExec.out.kind = "output"
              /\ lastExec.out.exit = 0) =>
                fs["task_plan.md"].kind = "absent"
          /\ (pc = "commands" /\ response = ScriptThenCommands
              /\ lastExec.called) =>
                fs["script.py"] = [kind |-> "file", text |-> Code])
    /\ [][/\ (pc = "generate" /\ pc' = "commands") =>
                (cmdIdx' = 1 /\ ~lastExec'.called
                 /\ last_command_output' = last_command_output)
          /\ (pc = "commands" /\ pc' = "commands") =>
                /\ saved_files' = saved_files
                /\ command_to_run' = command_to_run
                /\ \A p \in FsPaths \ {"task_plan.md", "notes.md"} :
                      fs'[p] = fs[p]
         ]_vars

\* the plan of the response was written and the rm before it in the
\* response then removed it
C20_Witness ==
    /\ CommandsHandled
    /\ response = RmThenPlan
    /\ saved_files = <<"task_plan.md">>
    /\ lastExec.started = "fg"
    /\ fs["task_plan.md"].kind = "absent"

-----------------------------------------------------------------------------
(* Properties of collaborative_build (SpecBuild).                          *)

\* C21, as stated: every file save_code_blocks has written for the coder's
\* reply lies inside out_dir, the directory generated/.
C21_AsStated ==
    \A i \in 1..Len(written) :
        fs[Resolve(written[i])].kind = "file" => Inside(GENERATED_DIR, written[i])

LastOf(s) == s[Len(s)]

\* the step hands a prompt of this kind to a model
PromptSent(kind) ==
    /\ Len(sent') = Len(sent) + 1
    /\ LastOf(sent').kind = kind

\* the round that has just run had a tests directory, wrote a file and
\* failed its tests
TestsFailed ==
    /\ tests_dir # NoTestsDir
    /\ written # <<>>
    /\ test_result.ran
    /\ ~test_result.passed

-----------------------------------------------------------------------------
(* Further properties of the parser (SpecParse), second part.              *)

\* the response holds two file blocks and both name the same file
SamePathBlocks ==
    /\ Len(matches) = 2
    /\ ListedBlock(matches[1])
    /\ ListedBlock(matches[2])
    /\ Canon(Target(matches[1])) = Canon(Target(matches[2]))

\* C23 as stated: of two file blocks of one response that name the same
\* path both are written, in their order, and the file ends with the body
\* of the later block.
C23_AsStated ==
    [][(BlockStep /\ blockIdx = 2 /\ SamePathBlocks) =>
          /\ fs'[Canon(Target(matches[2]))] =
                [kind |-> "file", text |-> matches[2].content]
          /\ saved_files' = <<PathStr(osName, Target(matches[1])),
                              PathStr(osName, Target(matches[2]))>>
      ]_vars

\* C23: of two file blocks of one response that name the same path, the
\* first has put its body into the file when the second is handled, the
\* second replaces the file by its own body, nothing of the first body
\* staying, and the path is listed once for each, in their order; unless
\* the write of that path raises, and then it raises for both, no file
\* changes and nothing is listed.
C23_LaterBlockWins ==
    [][(BlockStep /\ blockIdx = 2 /\ SamePathBlocks) =>
          LET p == Canon(Target(matches[2]))
          IN  IF WriteRaises(fs, p)
              THEN /\ saved_files = <<>>
                   /\ saved_files' = <<>>
                   /\ fs' = fs
              ELSE /\ fs[p] = [kind |-> "file", text |-> matches[1].content]
                   /\ saved_files = <<PathStr(osName, Target(matches[1]))>>
                   /\ fs'[p] = [kind |-> "file", text |-> matches[2].content]
                   /\ saved_files' = <<PathStr(osName, Target(matches[1])),
                                       PathStr(osName, Target(matches[2]))>>
      ]_vars

\* two plan blocks with different bodies: the plan holds the second body
C23_Witness ==
    /\ pc = "parsed"
    /\ SamePathBlocks
    /\ matches[1].content = PlanOpen
    /\ matches[2].content = BlankedLs
    /\ fs["task_plan.md"] = [kind |-> "file", text |-> BlankedLs]
    /\ saved_files = <<"task_plan.md", "task_plan.md">>

\* match b is headed by one token that holds a dot or a slash or is the
\* plan's name
OneTokenPath(b) ==
    /\ Len(HeaderTokens(b)) = 1
    /\ \/ HasDot(Target(b))
       \/ HasSlash(Target(b))
       \/ Target(b) = "task_plan.md"

\* C24: a block headed by one path-like token, or by two or more tokens
\* whatever the first one is, is taken for a file block that names its last
\* token: it adds no command, and its body goes to that file and its path
\* to the saved paths (when the name is safe and the write does not raise,
\* the cases of C4 and C7); and a block adds a command only when it is
\* headed by bash, sh or shell alone.
C24_HeaderTieBreak ==
    [][BlockStep =>
          LET b == matches[blockIdx]
          IN  /\ (OneTokenPath(b) \/ Len(HeaderTokens(b)) >= 2) =>
                    /\ command_to_run' = command_to_run
                    /\ (/\ Target(b) \notin UnsafeTargets
                        /\ ~WriteRaises(fs, Canon(Target(b)))) =>
                          /\ fs'[Canon(Target(b))] =
                                [kind |-> "file", text |-> b.content]
                          /\ saved_files' =
                                Append(saved_files, PathStr(osName, Target(b)))
              /\ command_to_run' # command_to_run => CommandBlock(b)
      ]_vars

\* a block headed `bash run.sh` and one headed `run.sh`: two writes of
\* run.sh and no command
C24_Witness ==
    /\ pc = "parsed"
    /\ Len(matches) = 2
    /\ matches[1].header = <<"bash", " ", "run.sh">>
    /\ matches[2].header = <<"run.sh">>
    /\ command_to_run = <<>>
    /\ saved_files = <<"run.sh", "run.sh">>
    /\ fs["run.sh"] = [kind |-> "file", text |-> Code]

-----------------------------------------------------------------------------
(* Further properties of the executor (SpecExec).                          *)

\* nothing but blank lines follows the marker lines the command starts
\* with
EmptyAfterDirectives(cmd) ==
    StripText(SubSeq(cmd, LeadingMarkers(cmd) + 1, Len(cmd))) = <<>>

\* C25: for a command that is empty once its directive lines are removed,
\* execute returns the fixed "skipped (empty command)" message, does not
\* call input(), starts no process and leaves the workspace as it was.
C25_EmptyCommandSkipped ==
    (lastExec.called /\ EmptyAfterDirectives(lastExec.cmd)) =>
        /\ lastExec.out = Msg("Command execution skipped (empty command).")
        /\ ~lastExec.asked
        /\ lastExec.started = "none"
        /\ fs \in ExecWorkspaces

\* a command of the one line `# background`, on a terminal
C25_Witness ==
    /\ lastExec.called
    /\ lastExec.cmd = <<"# background">>
    /\ lastExec.tty
    /\ lastExec.bg
    /\ lastExec.out = Msg("Command execution skipped (empty command).")
    /\ ~lastExec.asked
    /\ lastExec.started = "none"

\* C26 as stated: every foreground call of execute returns a result, whose
\* captured output is cut at the ceiling (len counts the characters in
\* front of the marker that tells of the cut or of the timeout), and the
\* result of a process that ended with a non-zero code is its output
\* behind the exit marker.
C26_AsStated ==
    (lastExec.called /\ lastExec.started = "fg") =>
        /\ lastExec.out # Raised
        /\ lastExec.out.len <= OUTPUT_CEILING
        /\ lastExec.out.exit # 0 => lastExec.out.kind = "output"

\* the step is a call of execute
ExecStep == ~lastExec.called /\ lastExec'.called

\* the call is for a command of marker lines followed by something to
\* run, and the operator approved it
ConfirmedBackground(e) ==
    /\ LeadingMarkers(e.cmd) >= 1
    /\ ~EmptyAfterDirectives(e.cmd)
    /\ e.asked
    /\ AnswerNorm(e.answer) \in {"y", "yes"}

\* the workspace f with the audit line appended to the notes file
WithLogLine(f) ==
    [f EXCEPT ![NOTES_FILE] =
        [kind |-> "file", text |-> Append(f[NOTES_FILE].text, LogLine)]]

\* C27 as stated: a confirmed command with a background directive is
\* started detached, execute returns the "Started background process"
\* message, and one audit line is appended to the notes file behind what it
\* held.
C27_AsStated ==
    [][(ExecStep /\ ConfirmedBackground(lastExec')) =>
          /\ lastExec'.started = "bg"
          /\ lastExec'.out = Msg("Started background process (pid N).")
          /\ fs' = WithLogLine(fs)
      ]_vars

\* C27: a confirmed command with a background directive is handed to
\* Popen and never to subprocess.run, so nothing waits for it.  When Popen
\* returns, execute returns the "Started background process" message and
\* one audit line is appended to the notes file behind what it held, no
\* other file changing, unless the notes file cannot be written (its path
\* is a directory): then the workspace stays as it was and the message is
\* the same.  When Popen raises, execute returns "Error executing
\* background command", nothing was started and nothing is logged.  No
\* other call starts a background process.
C27_BackgroundStartAndLog ==
    [][ExecStep =>
          /\ ConfirmedBackground(lastExec') =>
                /\ lastExec'.started \in {"bg", "none"}
                /\ lastExec'.started = "bg" =>
                      /\ lastExec'.out = Msg("Started background process (pid N).")
                      /\ fs' = IF fs[NOTES_FILE].kind = "dir" THEN fs
                               ELSE WithLogLine(fs)
                /\ lastExec'.started = "none" =>
                      /\ lastExec'.out = Msg("Error executing background command")
                      /\ fs' = fs
          /\ lastExec'.started = "bg" => ConfirmedBackground(lastExec')
      ]_vars

\* `# background` / `sleep 100` approved in a workspace with a note: the
\* notes file holds the note and the audit line
C27_Witness ==
    /\ lastExec.called
    /\ lastExec.cmd = <<"# background", "sleep 100">>
    /\ lastExec.answer = "y"
    /\ lastExec.started = "bg"
    /\ lastExec.out = Msg("Started background process (pid N).")
    /\ fs[NOTES_FILE] = [kind |-> "file", text |-> <<"earlier note", LogLine>>]

\* C28 as stated: when the first line of the command that is not blank is
\* a marker, blank lines in front of it or not, background is true and the
\* cleaned command does not start with a marker line.
C28_AsStated ==
    lastExec.called =>
        LET rest == DropLeadingBlank(lastExec.cmd)
        IN  (rest # <<>> /\ Head(rest) \in MarkerLines) =>
                /\ lastExec.bg
                /\ \/ lastExec.cleaned = <<>>
                   \/ ~IsDirective(Head(lastExec.cleaned))

-----------------------------------------------------------------------------
(* Further properties of the turn loop (Spec), second part.                *)

\* C29: a backend call of the turn loop that raises ends run_agent: the
\* call is not made again, since every call either is answered, and the
\* response goes to the parser, or is the last step of the run; the failed
\* call writes no file, lists nothing, runs no command and leaves the
\* workspace, with the files of the earlier turns, as it was; and nothing
\* at all follows a crash.
C29_BackendFailureIsFatal ==
    [][/\ pc # "crashed"
       /\ (pc = "generate" /\ calls' = calls + 1) =>
             pc' \in {"commands", "crashed"}
       /\ (pc = "generate" /\ pc' = "crashed") =>
             /\ calls' = calls + 1
             /\ fs' = fs
             /\ saved_files' = saved_files
             /\ command_to_run' = command_to_run
             /\ last_command_output' = last_command_output
             /\ lastExec' = lastExec
      ]_vars

\* the call of the second turn failed: the plan and the script written in
\* the first turn are there, and the lists are those of the first turn
C29_Witness ==
    /\ pc = "crashed"
    /\ turn = 2
    /\ calls = 2
    /\ prompt.built
    /\ lastExec = NoExec
    /\ saved_files = <<"script.py">>
    /\ fs["script.py"] = [kind |-> "file", text |-> Code]

\* the lines of a text all stand in the prompt
Quoted(text, pr) == \A i \in 1..Len(text) : text[i] \in PromptStrings(pr)

\* C30 as stated: the prompt of every turn holds the plan as it is on disk
\* at the start of the turn, the text of error.md as it is on disk, and the
\* text of the context file where one is configured and there, nothing
\* being added for a context file that is not configured or not there.
C30_AsStated ==
    prompt.built =>
       /\ prompt.plan = read_plan(fs)
       /\ fs[ERROR_FILE].kind = "file" => Quoted(fs[ERROR_FILE].text, prompt)
       /\ prompt.context \in {<<>>, ContextText}
       /\ ~context_file => prompt.context = <<>>

\* the step is one call of execute that started a process
ProcessStep == pc = "commands" /\ lastExec'.called /\ lastExec'.started # "none"

\* C31: once task_plan.md is there it stays there, as the regular file or
\* the directory it is, through the seeding call, through every response
\* that is applied and through every other step of run_agent; only a
\* process that the operator let start can take it away.
C31_PlanNeverDeleted ==
    [][(PlanExists(fs) /\ ~ProcessStep) =>
          fs'[TASK_FILE].kind = fs[TASK_FILE].kind]_vars

\* the second turn has ended on a plan that was there before the run and
\* that the response of the turn, which also asked for its removal, has
\* written anew
C31_Witness ==
    /\ ~continue_mode
    /\ seed_calls = 0
    /\ turn = 2
    /\ pc = "done"
    /\ response = Flatten(<<Chunk(<<"sh">>, <<"rm task_plan.md">>, TRUE),
                            Chunk(MdPlan, PlanDone, TRUE)>>)
    /\ PlanUpdated(saved_files)
    /\ fs[TASK_FILE] = File(PlanDone)

-----------------------------------------------------------------------------
(* Properties of the writer under an interrupt (SpecInterrupt).            *)

\* C32 as stated: whatever the point at which the process is interrupted,
\* every file of the workspace holds after each step either what it held
\* before the step or the whole content of the block that the step wrote.
C32_AsStated ==
    [][\A p \in FsPaths :
          fs'[p].kind = "file" =>
             \/ fs'[p] = fs[p]
             \/ /\ pc = "blocks"
                /\ blockIdx <= Len(matches)
                /\ fs'[p] = File(matches[blockIdx].content)]_vars

-----------------------------------------------------------------------------
(* Further properties of the turn loop (Spec), third part.                 *)

\* C33: the termination marker is looked for only by the completion check
\* at the end of a turn.  A run that comes to the loop with a budget of at
\* least one turn and a readable plan goes on to the backend call of turn 1
\* whether or not the plan carries a marker; and the run stops as complete
\* only from the end of a turn, after the backend call of that turn was
\* made and its response applied, and only when the plan as it is then
\* carries a marker.
C33_MarkerCheckedAtEndOfTurn ==
    [][/\ (pc = "loop" /\ turn = 0 /\ turns >= 1 /\ ~PlanUnreadable(fs)) =>
             (pc' = "generate" /\ prompt'.built /\ calls' = 0)
       /\ (pc # "done" /\ pc' = "done") =>
             /\ pc = "commands"
             /\ cmdIdx > Len(command_to_run)
             /\ turn >= 1
             /\ calls = turn
             /\ fs' = fs
             /\ HasTerminationMarker(read_plan(fs))
      ]_vars

\* a run resumed on a plan that carries a marker has made the call of
\* turn 1, got an empty response, which leaves the plan as it was, and
\* stopped at the completion check of that turn
C33_Witness ==
    /\ seed_calls = 0
    /\ turn = 1
    /\ calls = 1
    /\ response = <<>>
    /\ saved_files = <<>>
    /\ HasTerminationMarker(read_plan(fs))
    /\ pc = "done"

\* C34: before the first turn nothing is recorded: the staleness flag is
\* false and the lists of saved paths and of commands are empty, after the
\* seeding call of initialize_plan as well, whatever its response wrote;
\* so the prompt of turn 1 never carries the corrective notice.
C34_FirstPromptWithoutNotice ==
    /\ turn = 0 =>
          /\ ~missed_plan_update
          /\ saved_files = <<>>
          /\ command_to_run = <<>>
    /\ (turn = 1 /\ prompt.built) => ~prompt.alert

\* the seeding response wrote no plan: the prompt of turn 1 says that no
\* plan exists and carries no notice
C34_Witness ==
    /\ seed_calls = 1
    /\ turn = 1
    /\ pc = "generate"
    /\ prompt.built
    /\ prompt.plan = NO_PLAN
    /\ ~PlanExists(fs)
    /\ ~prompt.alert

\* the response of the turn wrote a plan that carries a termination marker
WroteMarkedPlan ==
    /\ PlanUpdated(saved_files)
    /\ HasTerminationMarker(
          read_plan(parse_response(osName, EmptyFs, response).fs))

WrittenBy(os, s, blocks, f) ==
    \E k \in 1..Len(blocks) :
       LET filename == FilenameOf(Tokens(blocks[k].header))
       IN  /\ ~IsCommandHeader(Tokens(blocks[k].header))
           /\ filename # NoFilename
           /\ ~IsUnsafe(filename)
           /\ s = PathStr(os, filename)
           /\ f[Canon(filename)] = File(blocks[k].content)

\* C36: every path in the list that parse_response returns stands for a
\* block of that response which was not refused and whose content is in
\* the file when the call returns; and whenever task_plan.md is not in the
\* list, whether no block named it, the block was refused or its write
\* raised, the staleness flag is set for the next turn.
C36_SavedOnlyIfWritten ==
    [][(pc = "generate" /\ pc' = "commands") =>
          /\ \A i \in 1..Len(saved_files') :
                WrittenBy(osName, saved_files'[i], FindAll(response'), fs')
          /\ ~PlanUpdated(saved_files') => missed_plan_update'
          /\ PlanUpdated(saved_files') =>
                missed_plan_update' = missed_plan_update
      ]_vars

\* the response of turn 1 named the plan by an absolute path, which is
\* refused: nothing was listed, the finished plan it held was not written,
\* and the prompt of turn 2 carries the corrective notice
C36_Witness ==
    /\ turn = 2
    /\ pc = "generate"
    /\ response =
          Flatten(<<Chunk(<<"python", " ", "../evil.py">>, Code, TRUE),
                    Chunk(<<"markdown", " ", "/ws/task_plan.md">>, PlanDone, TRUE),
                    Chunk(<<"bash">>, <<"  # BG  ">>, TRUE),
                    Chunk(<<"bash">>, <<>>, TRUE)>>)
    /\ saved_files = <<>>
    /\ fs["/ws/task_plan.md"].kind = "absent"
    /\ ~PlanHasMarker(fs)
    /\ prompt.alert

-----------------------------------------------------------------------------
(* Further properties of collaborative_build (SpecBuild).                  *)

\* the places of the FINAL entries in a history
FinalEntries(h) == {i \in 1..Len(h) : h[i].who = "model_a (FINAL)"}

\* C37: the history never holds more than one FINAL entry; a FINAL entry
\* is the last entry, comes right after the reply of the architect turn of
\* the last round (idx = turns - 1) and is there only when
\* collaborative_build has returned; and a returned history holds a FINAL
\* entry exactly when there was a round and the tests of the last round did
\* not fail, so that with turns = 0 or with failing tests in the last round
\* it ends without one.
C37_FinalEntryOnlyAfterLastArchitectTurn ==
    /\ Cardinality(FinalEntries(history)) <= 1
    /\ \A i \in FinalEntries(history) :
          /\ i = Len(history)
          /\ i >= 2
          /\ history[i - 1].who = "model_a"
          /\ LastOf(sent).kind = "final"
          /\ sent[Len(sent) - 1].kind = "review"
          /\ pc = "done"
          /\ turns >= 1
          /\ idx = turns - 1
    /\ pc = "done" =>
          (FinalEntries(history) = {}
              <=> (turns = 0 \/ (test_result.ran /\ ~test_result.passed)))

\* collaborative_build has returned from a run of two rounds whose last
\* round failed its tests: the history ends with the reply of the coder
\* and holds no FINAL entry
C37_Witness ==
    /\ pc = "done"
    /\ turns = 2
    /\ TestsFailed
    /\ Len(history) >= 3
    /\ LastOf(history).who = "model_b"
    /\ FinalEntries(history) = {}

====
